---- MODULE Spec2Model ----
(***************************************************************************)
(* A model of the line layout engine of embedded-text:                     *)
(*   rendering/line_iter.rs   LineElementIterator (the state machine)      *)
(*   rendering/cursor.rs      the horizontal / vertical cursor             *)
(*   rendering/space_config.rs UniformSpaceConfig                          *)
(*   alignment/right.rs       the right-aligned pixel iterator             *)
(* One step of the model is one pass through the `loop` of                 *)
(* LineElementIterator::next (one match arm, with every call it makes), or *)
(* one construction of an iterator by LineElementIterator::new.  A pass    *)
(* that executes `break v` returns v from next(); `ret` holds that value,  *)
(* or Continue when the loop goes round again inside the same call.        *)
(* The right-aligned pixel iterator is a second state machine over the     *)
(* same parser and cursor; one step is one pass through the `loop` of its  *)
(* next().                                                                 *)
(***************************************************************************)
EXTENDS Integers, Sequences, FiniteSets, TLC

\* ------------------------------------------------------------------------
\* Bounds of the model
MaxTokens == 3      \* longest token stream
MaxWidth == 6       \* widest line (bounds.size.width)
MaxWordLen == 2     \* longest plain word
MaxSpaces == 2      \* longest whitespace run
MaxHeight == 2      \* tallest bounding box (bounds.size.height)
MaxLineHeight == 2  \* tallest line of a font (base_line_height)
MaxRightWordLen == 4  \* longest word of a right-aligned text
MaxTabWidth == 4      \* widest tab of a line cursor
MaxEdge == 2          \* how far a width or a distance is from an end of its range

\* ------------------------------------------------------------------------
\* Font metrics and tab size (parameters of the generic code)
CHARACTER_SIZE_width == 2
CHARACTER_SPACING == 0
tab_width == 3
line_spacing == 1
line_height == 1

\* F::CHARACTER_SIZE.width + F::CHARACTER_SPACING: the advance of one glyph
CharWidth == CHARACTER_SIZE_width + CHARACTER_SPACING

VARIABLES
    tokens,       \* the token stream the Parser yields (fixed input)
    width,        \* the line width of the cursor's bounding box (fixed input)
    height,       \* the height of the cursor's bounding box (fixed input)
    space_width,  \* UniformSpaceConfig.space_width (`config`)
    alignment,    \* A: [STARTING_SPACES, ENDING_SPACES]
    parser,       \* number of tokens already taken from `parser`
    carried_token,\* *carried_token: a token or NoToken
    current_token,\* current_token: State (Idle before the first iterator)
    first_word,   \* first_word
    x,            \* cursor: horizontal position in the line (x_in_line)
    y,            \* cursor: vertical position
    ret,          \* value returned by the last pass of next()
    elems,        \* history: elements returned by the current iterator
    printed,      \* history: characters of Word tokens emitted so far, all lines
    event,        \* history: the branch taken by the last step
    start,        \* history: parser / carried_token / cursor at construction
    state,        \* StyledTextBoxIterator.state: RightAlignedState (NoState if
                  \*          the line iterator is the machine that runs)
    measured,     \* history: total_width of the last MeasureLine pass
    wrapped,      \* history: the Whitespace tokens (their places in the stream) at
                  \*          which a line was wrapped without rendering a space
    wrap_due,     \* history: the Whitespace arm set would_wrap on this line
    consumed,     \* history: the number of spaces taken from `config` by consume()
    dropped,      \* history: the characters of tokens dropped because nothing fits
                  \*          while the alignment renders trailing spaces
    prev          \* history: the iterator and cursor as they were before the last step

vars == <<tokens, width, space_width, alignment, parser, carried_token,
          current_token, first_word, x, y, ret, elems, printed, event, start,
          wrap_due, wrapped, consumed, dropped, prev, height, state, measured>>

inputs == <<tokens, width, height, space_width, alignment>>

\* ------------------------------------------------------------------------
\* Tokens (parser::Token)
NoToken == [t |-> "None"]
Word(w) == [t |-> "Word", w |-> w]
Whitespace(n) == [t |-> "Whitespace", n |-> n]
Break(c) == [t |-> "Break", c |-> c]
ExtraCharacter(c) == [t |-> "ExtraCharacter", c |-> c]
Tab == [t |-> "Tab"]
NewLine == [t |-> "NewLine"]
CarriageReturn == [t |-> "CarriageReturn"]
EscapeSequence(seq, n) == [t |-> "EscapeSequence", seq |-> seq, n |-> n]

\* Characters.  ch is "c" (a glyph), "nbsp" (SPEC_CHAR_NBSP) or "-" (the
\* fallback of a soft hyphen); tok, idx say where in the input it stands.
Char(ch, tok, idx) == [ch |-> ch, tok |-> tok, idx |-> idx]
NoChar == [ch |-> "none", tok |-> 0, idx |-> 0]

\* Break(None)
BreakNone == Break(NoChar)

\* RenderElement, and the two other outcomes of a pass of next()
Space(w, count) == [e |-> "Space", width |-> w, count |-> count]
PrintedCharacter(c) == [e |-> "PrintedCharacter", c |-> c]
Sgr == [e |-> "Sgr"]
NoSgr == [e |-> "NoSgr"]
None == [e |-> "None"]
Continue == [e |-> "Continue"]

\* State
Idle == [k |-> "Idle"]
ProcessToken(tok) == [k |-> "ProcessToken", tok |-> tok]
StateWord(chars) == [k |-> "Word", chars |-> chars]
Done == [k |-> "Done"]
NoIterator == [k |-> "None"]

\* RightAlignedState; a pixel iterator is the number of pixels it has left
NoState == [k |-> "None"]
NextWord(fw) == [k |-> "NextWord", first_word |-> fw]
LineBreak(remaining) == [k |-> "LineBreak", remaining |-> remaining]
MeasureLine(remaining) == [k |-> "MeasureLine", remaining |-> remaining]
DrawWord(chars) == [k |-> "DrawWord", chars |-> chars]
DrawCharacter(chars, it) == [k |-> "DrawCharacter", chars |-> chars, it |-> it]
DrawWhitespace(n, it) == [k |-> "DrawWhitespace", n |-> n, it |-> it]
Pixel == [e |-> "Pixel"]

\* ------------------------------------------------------------------------
\* Input streams.  A shape is a token without character positions; Tag puts
\* the position of every character of the input into it.
\* the parameters of a graphics-mode sequence (the n of the token) when no
\* style is known for them
UnknownParameters == 0

PlainWords == {[i \in 1..n |-> "c"] : n \in 1..MaxWordLen}
NbspWords == {<<"c", "nbsp">>}
WordShapes == PlainWords \cup NbspWords

Shapes ==
    {[t |-> "Word", w |-> w] : w \in WordShapes}
      \cup {Whitespace(n) : n \in 1..MaxSpaces}
      \cup {[t |-> "Break", c |-> c] : c \in {"none", "-"}}
      \cup {Tab, NewLine, CarriageReturn}
      \cup {EscapeSequence(s, 1) :
              s \in {"SetGraphicsMode", "CursorForward", "CursorBackward", "Other"}}
      \cup {EscapeSequence("SetGraphicsMode", UnknownParameters)}

Tag(s, i) ==
    CASE s.t = "Word" -> Word([j \in 1..Len(s.w) |-> Char(s.w[j], i, j)])
      [] s.t = "Break" -> Break(IF s.c = "none" THEN NoChar ELSE Char(s.c, i, 1))
      [] OTHER -> s

\* The parser yields maximal runs: a Word is never directly followed by a
\* Word, nor a Whitespace run by a Whitespace run.
MaximalRuns(f, n) ==
    \A i \in 1..(n - 1) :
        ~(f[i].t = f[i + 1].t /\ f[i].t \in {"Word", "Whitespace"})

Streams ==
    UNION {{[i \in 1..n |-> Tag(f[i], i)] :
              f \in {g \in [1..n -> Shapes] : MaximalRuns(g, n)}} : n \in 0..MaxTokens}

\* UniformSpaceConfig.space_width: a space narrower than, as wide as, or wider
\* than a glyph
SpaceWidths == (CharWidth - 1)..(CharWidth + 1)

\* HorizontalTextAlignment: LeftAligned keeps leading and trailing spaces,
\* the other alignments drop both.
Alignments ==
    {[STARTING_SPACES |-> TRUE, ENDING_SPACES |-> TRUE],
     [STARTING_SPACES |-> FALSE, ENDING_SPACES |-> FALSE]}

\* ------------------------------------------------------------------------
\* rendering/space_config.rs
peek_next_width(n) == n * space_width

\* (a variant that hands out one space whatever it is asked for)
consume_one_space(n) == peek_next_width(1)

consume(n) == peek_next_width(n)

\* ------------------------------------------------------------------------
\* rendering/cursor.rs
space(position) == width - position

\* (a variant that forgets where the cursor stands)
fits_in_line_ignoring_position(position, w) == w <= width

fits_in_line(position, w) == w <= space(position)

\* advance: the position after the call (unchanged if it does not fit)
advance(position, by) ==
    IF fits_in_line(position, by) THEN position + by ELSE position

advance_unchecked(position, by) == position + by

\* rewind: the position after the call (unchanged if it would leave the line)
rewind(position, by) == IF 0 <= position - by THEN position - by ELSE position

carriage_return(position) == 0

x_in_line(position) == position

\* (a variant that always advances by a whole tab width)
next_tab_width_whole(position) == tab_width

\* (a variant that measures the distance from the last tab position)
next_tab_width_back(position, t) == position - (position \div t) * t

\* LineCursor::next_tab_width of a cursor whose tabs are t wide
next_tab_width_of(position, t) ==
    LET next_tab_pos == (position \div t + 1) * t IN next_tab_pos - position

next_tab_width(position) == next_tab_width_of(position, tab_width)

\* (a variant that stays on its line)
new_line_in_place(line) == line

new_line(line) == line + line_spacing

\* FontExt::str_width_nocr of a monospace font
str_width_nocr(w) == Len(w) * CharWidth

\* ------------------------------------------------------------------------
\* next_word_width: scan of a clone of the parser.  -1 stands for None.
NoWidth == -1

RECURSIVE lookahead(_, _)
lookahead(i, acc) ==
    IF i > Len(tokens) THEN acc
    ELSE LET tok == tokens[i] IN
         CASE tok.t = "Word" ->
                lookahead(i + 1, IF acc = NoWidth THEN str_width_nocr(tok.w)
                                 ELSE acc + str_width_nocr(tok.w))
           [] tok.t = "Break" /\ tok.c # NoChar ->
                IF acc = NoWidth THEN CharWidth ELSE acc + CharWidth
           [] tok.t = "EscapeSequence" -> lookahead(i + 1, acc)
           [] OTHER -> acc

\* (a variant that measures the next token only)
next_word_width_one_token ==
    IF parser < Len(tokens) /\ tokens[parser + 1].t = "Word"
    THEN str_width_nocr(tokens[parser + 1].w)
    ELSE NoWidth

next_word_width == lookahead(parser + 1, NoWidth)

\* count_widest_space_seq
RECURSIVE widest_scan(_, _, _)
widest_scan(spaces_to_render, n, available) ==
    IF spaces_to_render < n /\ peek_next_width(spaces_to_render + 1) < available
    THEN widest_scan(spaces_to_render + 1, n, available)
    ELSE spaces_to_render

\* (a variant that takes every space without looking at the room left)
count_widest_space_seq_unbounded(n) == n

count_widest_space_seq(n) == widest_scan(0, n, space(x))

\* ------------------------------------------------------------------------
\* Helpers of the iterator, as effects on (current_token, parser),
\* (carried_token) and the cursor.

\* The arms that call next_word_width before they go on: Break, and
\* Whitespace behind the first word of the line.
lookahead_ran ==
    /\ current_token.k = "ProcessToken"
    /\ \/ current_token.tok.t = "Break"
       \/ current_token.tok.t = "Whitespace" /\ ~first_word

\* the number of tokens a scan from token i on has taken when it stops: the
\* Words and escape sequences it passes and the token it stops at
RECURSIVE scan_end(_)
scan_end(i) ==
    IF i > Len(tokens) THEN Len(tokens)
    ELSE IF tokens[i].t \in {"Word", "EscapeSequence"} THEN scan_end(i + 1)
    ELSE i

\* (a variant that scans the parser of the iterator itself)
parser_after_lookahead_live == scan_end(parser + 1)

\* next_word_width scans a clone: `self.parser` is where it was
parser_after_lookahead == parser

\* the position of `self.parser` when the arm calls next_token or finish
live_parser == IF lookahead_ran THEN parser_after_lookahead ELSE parser

\* next_token / finish_end_of_string
next_token ==
    /\ current_token' = IF live_parser < Len(tokens)
                        THEN ProcessToken(tokens[live_parser + 1])
                        ELSE Done
    /\ parser' = IF live_parser < Len(tokens) THEN live_parser + 1 ELSE live_parser

finish_end_of_string ==
    /\ current_token' = Done
    /\ parser' = live_parser

\* (a variant that moves one line down for every token)
finish_one_line_down(t) ==
    /\ current_token' = Done
    /\ parser' = live_parser
    /\ carried_token' = t
    /\ x' = carriage_return(x)
    /\ y' = new_line(y)

\* finish: ends the line; the cursor goes to the start of the line and, unless
\* the token is a CarriageReturn, one line down.
finish(t) ==
    /\ current_token' = Done
    /\ parser' = live_parser
    /\ carried_token' = t
    /\ x' = carriage_return(x)
    /\ y' = IF t = CarriageReturn THEN y ELSE new_line(y)

\* (a variant that carries the token being processed instead of the marker)
finish_wrapped_carrying_token == finish(current_token.tok)

\* (a variant that ends the line without leaving a marker)
finish_wrapped_unmarked == finish(NoToken)

finish_wrapped == finish(BreakNone)

Emit(el) ==
    /\ ret' = el
    /\ elems' = Append(elems, el)

NoEmit ==
    /\ ret' = Continue
    /\ elems' = elems

IsProcessing(kind) ==
    /\ current_token.k = "ProcessToken"
    /\ current_token.tok.t = kind

\* the program state a step starts from (kept in `prev`)
Snapshot ==
    [parser |-> parser, carried_token |-> carried_token,
     current_token |-> current_token, first_word |-> first_word,
     x |-> x, y |-> y, ret |-> ret, consumed |-> consumed]

\* ------------------------------------------------------------------------
Init ==
    /\ tokens \in Streams
    /\ width \in 0..MaxWidth
    /\ height = MaxHeight
    /\ state = NoState
    /\ measured = NoWidth
    /\ space_width \in SpaceWidths
    /\ alignment \in Alignments
    /\ parser = 0
    /\ carried_token = NoToken
    /\ current_token = Idle
    /\ first_word = TRUE
    /\ x = 0
    /\ y = 0
    /\ ret = Continue
    /\ elems = <<>>
    /\ printed = <<>>
    /\ event = "Init"
    /\ start = [parser |-> 0, carried |-> NoToken, x |-> 0, y |-> 0]
    /\ wrap_due = FALSE
    /\ wrapped = {}
    /\ consumed = 0
    /\ dropped = {}
    /\ prev = Snapshot

\* the filter of new(): carried tokens that only mark the end of a line
\* (a variant that also forgets a carried ExtraCharacter)
is_line_end_marker_or_extra(t) ==
    t \in {NewLine, CarriageReturn, BreakNone} \/ t.t = "ExtraCharacter"

\* (a variant that keeps every carried token)
is_line_end_marker_never(t) == FALSE

is_line_end_marker(t) == t \in {NewLine, CarriageReturn, BreakNone}

\* LineElementIterator::new, called by the cross-line protocol: for the first
\* line, and again after an iterator is drained while the parser has tokens
\* left or a token is carried.
New ==
    /\ \/ current_token = Idle
       \/ /\ current_token = Done
          /\ ret = None
          /\ (parser < Len(tokens) \/ carried_token # NoToken)
    /\ LET kept == carried_token # NoToken /\ ~is_line_end_marker(carried_token) IN
       /\ current_token' =
            IF kept THEN ProcessToken(carried_token)
            ELSE IF parser < Len(tokens) THEN ProcessToken(tokens[parser + 1])
            ELSE Done
       /\ parser' = IF ~kept /\ parser < Len(tokens) THEN parser + 1 ELSE parser
       /\ event' = IF kept THEN "NewResume" ELSE "NewFresh"
    /\ carried_token' = NoToken
    /\ first_word' = TRUE
    /\ ret' = Continue
    /\ elems' = <<>>
    /\ start' = [parser |-> parser, carried |-> carried_token, x |-> x, y |-> y]
    /\ wrap_due' = FALSE
    /\ UNCHANGED <<wrapped, consumed, dropped>>
    /\ prev' = Snapshot
    /\ UNCHANGED <<state, measured>>
    /\ UNCHANGED <<inputs, x, y, printed>>

\* (a variant that goes on with the next token of the parser)
NextDoneResuming ==
    /\ current_token = Done
    /\ next_token
    /\ ret' = None
    /\ event' = "Done"
    /\ UNCHANGED <<wrap_due, wrapped, consumed, dropped>>
    /\ prev' = Snapshot
    /\ UNCHANGED <<state, measured>>
    /\ UNCHANGED <<inputs, carried_token, first_word, x, y, elems, printed, start>>

\* State::Done => break None
NextDone ==
    /\ current_token = Done
    /\ ret' = None
    /\ event' = "Done"
    /\ UNCHANGED <<wrap_due, wrapped, consumed, dropped>>
    /\ prev' = Snapshot
    /\ UNCHANGED <<state, measured>>
    /\ UNCHANGED <<inputs, parser, carried_token, current_token, first_word, x, y,
                   elems, printed, start>>

\* Token::NewLine | Token::CarriageReturn
ProcessNewLine ==
    /\ IsProcessing("NewLine") \/ IsProcessing("CarriageReturn")
    /\ finish(current_token.tok)
    /\ NoEmit
    /\ event' = current_token.tok.t
    /\ UNCHANGED <<wrap_due, wrapped, consumed, dropped>>
    /\ prev' = Snapshot
    /\ UNCHANGED <<state, measured>>
    /\ UNCHANGED <<inputs, first_word, printed, start>>

\* Token::Whitespace(n): the decisions of the arm
saturating_sub(n, k) == IF n >= k THEN n - k ELSE 0

\* (a variant that checks the spaces alone, not the word after them)
would_wrap_spaces_only(n) ==
    /\ ~first_word
    /\ next_word_width # NoWidth
    /\ ~fits_in_line(x, peek_next_width(n))

\* whether the lookahead finds that the n spaces and the next word do not fit
would_wrap(n) ==
    /\ ~first_word
    /\ next_word_width # NoWidth
    /\ ~fits_in_line(x, peek_next_width(n) + next_word_width)

\* (a variant that renders every leading run)
render_whitespace_leading(n) ==
    first_word
      \/ alignment.ENDING_SPACES
      \/ (next_word_width # NoWidth
            /\ fits_in_line(x, peek_next_width(n) + next_word_width))

render_whitespace(n) ==
    IF first_word THEN alignment.STARTING_SPACES
    ELSE IF next_word_width # NoWidth
         THEN alignment.ENDING_SPACES
                \/ fits_in_line(x, peek_next_width(n) + next_word_width)
         ELSE alignment.ENDING_SPACES

\* the count the arm works with after `let n = if would_wrap {..}`
spaces_wanted(n) == IF would_wrap(n) THEN saturating_sub(n, 1) ELSE n

\* (a variant that carries the whole run when none of its spaces fits)
none_fit_carry_whole(n) == Whitespace(n)

\* none of the n spaces fits: one is eaten as the line break and the rest is
\* carried (`finish_wrapped` carries Break(None))
none_fit_carry(n) == IF n > 1 THEN Whitespace(n - 1) ELSE BreakNone

ProcessWhitespace ==
    /\ IsProcessing("Whitespace")
    /\ LET n0 == current_token.tok.n
           n == spaces_wanted(n0)
           spaces_to_render == count_widest_space_seq(n)
           sp_width == consume(spaces_to_render)
           carried == n - spaces_to_render
       IN /\ first_word' = IF first_word /\ alignment.STARTING_SPACES THEN FALSE
                           ELSE first_word
          /\ IF render_whitespace(n0)
             THEN IF spaces_to_render > 0
                  THEN /\ IF carried = 0
                          THEN /\ next_token
                               /\ x' = advance_unchecked(x, sp_width)
                               /\ event' = "WhitespaceAll"
                               /\ UNCHANGED <<carried_token, y>>
                          ELSE /\ finish(Whitespace(carried))
                               /\ event' = "WhitespaceSome"
                       /\ Emit(Space(sp_width, spaces_to_render))
                       /\ consumed' = consumed + spaces_to_render
                  ELSE /\ finish(none_fit_carry(n))
                       /\ event' = "WhitespaceNoneFit"
                       /\ NoEmit
                       /\ UNCHANGED consumed
             ELSE IF would_wrap(n0)
                  THEN /\ finish_wrapped
                       /\ event' = "WhitespaceWrap"
                       /\ NoEmit
                       /\ UNCHANGED consumed
                  ELSE /\ next_token
                       /\ event' = "WhitespaceSkip"
                       /\ NoEmit
                       /\ UNCHANGED <<carried_token, x, y, consumed>>
    /\ wrap_due' = (wrap_due \/ (alignment.ENDING_SPACES /\ would_wrap(current_token.tok.n)))
    /\ wrapped' = IF ~render_whitespace(current_token.tok.n) /\ would_wrap(current_token.tok.n)
                  THEN wrapped \cup {parser} ELSE wrapped
    /\ UNCHANGED dropped
    /\ prev' = Snapshot
    /\ UNCHANGED <<state, measured>>
    /\ UNCHANGED <<inputs, printed, start>>

\* Token::Break(c)
break_fits ==
    IF next_word_width # NoWidth THEN fits_in_line(x, next_word_width) ELSE TRUE

ProcessBreak ==
    /\ IsProcessing("Break")
    /\ LET c == current_token.tok.c IN
       IF break_fits
       THEN /\ next_token
            /\ event' = "BreakSkip"
            /\ NoEmit
            /\ UNCHANGED <<carried_token, x, y>>
       ELSE IF c # NoChar
            THEN IF fits_in_line(x, CharWidth)
                 THEN /\ finish_wrapped
                      /\ event' = "BreakHyphen"
                      /\ Emit(PrintedCharacter(c))
                 ELSE /\ finish(ExtraCharacter(c))
                      /\ event' = "BreakExtra"
                      /\ NoEmit
            ELSE /\ finish_wrapped
                 /\ event' = "BreakWrap"
                 /\ NoEmit
    /\ UNCHANGED <<wrap_due, wrapped, consumed, dropped>>
    /\ prev' = Snapshot
    /\ UNCHANGED <<state, measured>>
    /\ UNCHANGED <<inputs, first_word, printed, start>>

\* Token::ExtraCharacter(c)
ProcessExtraCharacter ==
    /\ IsProcessing("ExtraCharacter")
    /\ IF fits_in_line(x, CharWidth)
       THEN /\ x' = advance(x, CharWidth)
            /\ next_token
            /\ event' = "ExtraCharacter"
            /\ Emit(PrintedCharacter(current_token.tok.c))
            /\ UNCHANGED dropped
       ELSE /\ finish_end_of_string
            /\ event' = "ExtraCharacterDrop"
            /\ NoEmit
            /\ x' = x
            /\ dropped' = dropped \cup {current_token.tok.c}
    /\ UNCHANGED <<wrap_due, wrapped, consumed>>
    /\ prev' = Snapshot
    /\ UNCHANGED <<state, measured>>
    /\ UNCHANGED <<inputs, carried_token, first_word, y, printed, start>>

\* Token::Word(w)
\* (a variant that asks for room for the first character only)
word_fits_first_char(w) == fits_in_line(x, CharWidth)

\* whether the whole word fits in what is left of the line
word_fits(w) == fits_in_line(x, str_width_nocr(w))

ProcessWord ==
    /\ IsProcessing("Word")
    /\ LET w == current_token.tok.w IN
       IF first_word
       THEN /\ first_word' = FALSE
            /\ current_token' = StateWord(w)
            /\ event' = "WordFirst"
            /\ UNCHANGED <<parser, carried_token, x, y>>
       ELSE IF word_fits(w)
            THEN /\ current_token' = StateWord(w)
                 /\ event' = "WordFits"
                 /\ UNCHANGED <<parser, carried_token, first_word, x, y>>
            ELSE /\ finish(current_token.tok)
                 /\ event' = "WordDeferred"
                 /\ UNCHANGED first_word
    /\ NoEmit
    /\ UNCHANGED <<wrap_due, wrapped, consumed, dropped>>
    /\ prev' = Snapshot
    /\ UNCHANGED <<state, measured>>
    /\ UNCHANGED <<inputs, printed, start>>

\* Token::Tab
ProcessTab ==
    /\ IsProcessing("Tab")
    /\ LET sp_width == next_tab_width(x) IN
       IF fits_in_line(x, sp_width)
       THEN /\ x' = advance(x, sp_width)
            /\ next_token
            /\ event' = "Tab"
            /\ Emit(Space(sp_width, 0))
            /\ UNCHANGED <<carried_token, y>>
       ELSE /\ finish_wrapped
            /\ event' = "TabWrap"
            /\ Emit(Space(space(x), 0))
    /\ UNCHANGED <<wrap_due, wrapped, consumed, dropped>>
    /\ prev' = Snapshot
    /\ UNCHANGED <<state, measured>>
    /\ UNCHANGED <<inputs, first_word, printed, start>>

\* ansi::try_parse_sgr: the style of the parameters of a graphics-mode
\* sequence, or NoSgr (None) for parameters it does not know
try_parse_sgr(vec) == IF vec = UnknownParameters THEN NoSgr ELSE Sgr

\* (a variant that takes the count of characters for a distance)
cursor_delta_in_characters(n) == n

\* Token::EscapeSequence(seq); delta = n * F::CHARACTER_SIZE.width + F::CHARACTER_SPACING
cursor_delta(n) == n * CHARACTER_SIZE_width + CHARACTER_SPACING

ProcessEscapeSequence ==
    /\ IsProcessing("EscapeSequence")
    /\ next_token
    /\ LET seq == current_token.tok.seq
           delta == cursor_delta(current_token.tok.n)
       IN CASE seq = "SetGraphicsMode" ->
                 /\ IF try_parse_sgr(current_token.tok.n) # NoSgr
                    THEN Emit(try_parse_sgr(current_token.tok.n))
                    ELSE NoEmit
                 /\ x' = x
            [] seq = "CursorForward" ->
                 IF fits_in_line(x, delta)
                 THEN /\ x' = advance(x, delta)
                      /\ Emit(Space(delta, 0))
                 ELSE /\ x' = advance_unchecked(x, space(x))
                      /\ Emit(Space(space(x), 0))
            [] seq = "CursorBackward" ->
                 /\ x' = IF rewind(x, delta) # x \/ delta = 0 THEN rewind(x, delta)
                         ELSE carriage_return(x)
                 /\ NoEmit
            [] OTHER ->
                 /\ NoEmit
                 /\ x' = x
    /\ event' = current_token.tok.seq
    /\ UNCHANGED <<wrap_due, wrapped, consumed, dropped>>
    /\ prev' = Snapshot
    /\ UNCHANGED <<state, measured>>
    /\ UNCHANGED <<inputs, carried_token, first_word, y, printed, start>>

\* State::Word(chars): one character of the word
\* (a variant that advances by a glyph for every character)
char_width_glyph(c) == CharWidth

char_width(c) == IF c.ch = "nbsp" THEN peek_next_width(1) ELSE CharWidth

char_element(c) ==
    IF c.ch = "nbsp" THEN Space(peek_next_width(1), 1) ELSE PrintedCharacter(c)

\* the spaces the character takes from `config`: consume(1) for a nbsp
spaces_in(c) == IF c.ch = "nbsp" THEN 1 ELSE 0

\* the token carried when a character does not fit on a line that has content
\* (a variant that reads the rest of the word after taking the character)
word_remainder_after_next(chars) == Word(Tail(chars))

word_remainder(chars) == Word(chars)

\* whether the line already holds something when a character does not fit
\* (a variant that never takes the line for empty)
line_has_content_always == TRUE

line_has_content == x_in_line(x) > 0

WordChar ==
    /\ current_token.k = "Word"
    /\ LET chars == current_token.chars IN
       IF chars = <<>>
       THEN /\ next_token
            /\ event' = "WordEnd"
            /\ NoEmit
            /\ UNCHANGED <<carried_token, x, y, printed, consumed, dropped>>
       ELSE LET c == Head(chars) IN
            IF fits_in_line(x, char_width(c))
            THEN /\ x' = advance(x, char_width(c))
                 /\ current_token' = StateWord(Tail(chars))
                 /\ event' = "WordChar"
                 /\ Emit(char_element(c))
                 /\ printed' = Append(printed, c)
                 /\ consumed' = consumed + spaces_in(c)
                 /\ UNCHANGED dropped
                 /\ UNCHANGED <<parser, carried_token, y>>
            ELSE IF line_has_content
                 THEN /\ finish(word_remainder(chars))
                      /\ event' = "WordSplit"
                      /\ NoEmit
                      /\ UNCHANGED <<printed, consumed, dropped>>
                 ELSE /\ finish_end_of_string
                      /\ event' = "WordDrop"
                      /\ NoEmit
                      /\ UNCHANGED <<carried_token, x, y, printed, consumed>>
                      /\ dropped' = dropped \cup {chars[k] : k \in 1..Len(chars)}
    /\ UNCHANGED <<wrap_due, wrapped>>
    /\ prev' = Snapshot
    /\ UNCHANGED <<state, measured>>
    /\ UNCHANGED <<inputs, first_word, start>>

\* The lines on which the per-character emission puts the k glyphs of a word
\* that is the first word of its line, with the cursor at `position` on line
\* `line`: a glyph that fits is printed; one that does not fit ends a line
\* with content, and the rest resumes as the first word of the next line; on
\* an empty line the rest is dropped.
RECURSIVE first_word_lines(_, _, _)
first_word_lines(k, position, line) ==
    IF k = 0 THEN <<>>
    ELSE IF fits_in_line(position, CharWidth)
         THEN <<line>> \o first_word_lines(k - 1, advance(position, CharWidth), line)
    ELSE IF x_in_line(position) > 0
         THEN first_word_lines(k, carriage_return(position), new_line(line))
    ELSE <<>>

Next ==
    \/ New
    \/ NextDone
    \/ ProcessWhitespace
    \/ ProcessBreak
    \/ ProcessExtraCharacter
    \/ ProcessWord
    \/ ProcessTab
    \/ ProcessEscapeSequence
    \/ ProcessNewLine
    \/ WordChar

Spec == Init /\ [][Next]_vars

\* The caller runs the cross-line protocol to its end: it keeps calling next()
\* and keeps constructing iterators while one is called for.
FairSpec == Spec /\ WF_vars(Next)

\* ------------------------------------------------------------------------
\* alignment/right.rs: the right-aligned pixel iterator.  Its parser yields
\* Word, Whitespace and NewLine tokens.

\* words long enough to be carried over a line two characters at a time
RightWords == {[i \in 1..n |-> "c"] : n \in 1..MaxRightWordLen}

RightShapes ==
    {Word(w) : w \in RightWords} \cup {Whitespace(n) : n \in 1..MaxSpaces} \cup {NewLine}

RightStreams ==
    UNION {{[i \in 1..n |-> Tag(f[i], i)] :
              f \in {g \in [1..n -> RightShapes] : MaximalRuns(g, n)}} : n \in 0..MaxTokens}

\* Cursor::bottom_right, its y: the top edge when the rectangle is empty
bottom_right ==
    IF width = 0 \/ height = 0 THEN 0 ELSE height - 1

\* Cursor::in_display_area
in_display_area(line) ==
    0 <= line /\ line <= bottom_right - line_height + 1

\* F::total_char_width, F::str_width: the font is monospace
total_char_width(c) == CharWidth

str_width(w) == Len(w) * CharWidth

\* F::measure_line: the width of the longest prefix of the characters that is
\* no wider than max_width, and whether that prefix is all of them
RECURSIVE measure_scan(_, _, _)
measure_scan(chars, max_width, total) ==
    IF chars = <<>> THEN [width |-> total, fits_line |-> TRUE]
    ELSE IF total + total_char_width(Head(chars)) <= max_width
         THEN measure_scan(Tail(chars), max_width, total + total_char_width(Head(chars)))
         ELSE [width |-> total, fits_line |-> FALSE]

measure_line(chars, max_width) == measure_scan(chars, max_width, 0)

Min(a, b) == IF a <= b THEN a ELSE b

\* the loop of MeasureLine over a clone of the parser, from token i on
RECURSIVE measure_tokens(_, _, _, _)
measure_tokens(i, total_width, last_whitespace_width, fw) ==
    IF i > Len(tokens) THEN total_width
    ELSE LET token == tokens[i]
             max_line_width == width
             go_on(t, l, f) ==
                 IF t >= max_line_width THEN t ELSE measure_tokens(i + 1, t, l, f)
         IN CASE token.t = "NewLine" -> total_width
              [] token.t = "Whitespace" ->
                   IF total_width = 0
                   THEN go_on(total_width, last_whitespace_width, fw)
                   ELSE go_on(total_width,
                              Min(token.n * total_char_width(" "),
                                  max_line_width - total_width), fw)
              [] token.t = "Word" ->
                   LET word_measurement ==
                           measure_line(token.w,
                               max_line_width - total_width - last_whitespace_width)
                   IN IF word_measurement.fits_line
                      THEN go_on(total_width + last_whitespace_width
                                     + word_measurement.width, 0, FALSE)
                      ELSE IF fw THEN measure_line(token.w, max_line_width).width
                           ELSE total_width

\* the width MeasureLine computes for the line that starts with `remaining`
measure(remaining) ==
    LET measurement == measure_line(remaining, width) IN
    IF measurement.fits_line
    THEN measure_tokens(parser + 1, measurement.width, 0, TRUE)
    ELSE measurement.width

\* what no step of the pixel iterator touches
iterator_only == <<carried_token, current_token, first_word, wrap_due, wrapped,
                   consumed, dropped>>

RightInit ==
    /\ tokens \in RightStreams
    /\ width \in 0..MaxWidth
    /\ height \in 0..MaxHeight
    /\ space_width = CharWidth
    /\ alignment = [STARTING_SPACES |-> FALSE, ENDING_SPACES |-> FALSE]
    /\ parser = 0
    /\ carried_token = NoToken
    /\ current_token = NoIterator
    /\ first_word = TRUE
    /\ x = 0
    /\ y = 0
    /\ ret = Continue
    /\ elems = <<>>
    /\ printed = <<>>
    /\ event = "Init"
    /\ start = [parser |-> 0, carried |-> NoToken, x |-> 0, y |-> 0]
    /\ wrap_due = FALSE
    /\ wrapped = {}
    /\ consumed = 0
    /\ dropped = {}
    /\ state = MeasureLine(<<>>)
    /\ measured = NoWidth
    /\ prev = Snapshot

\* if !self.cursor.in_display_area() { break None; }
RightOutside ==
    /\ state # NoState
    /\ ~in_display_area(y)
    /\ ret' = None
    /\ event' = "Outside"
    /\ prev' = Snapshot
    /\ UNCHANGED <<inputs, iterator_only, parser, x, y, elems, printed, start,
                   state, measured>>

\* RightAlignedState::LineBreak
RightLineBreak ==
    /\ state.k = "LineBreak"
    /\ in_display_area(y)
    /\ x' = carriage_return(x)
    /\ y' = new_line(y)
    /\ state' = MeasureLine(state.remaining)
    /\ ret' = Continue
    /\ event' = "LineBreak"
    /\ prev' = Snapshot
    /\ UNCHANGED <<inputs, iterator_only, parser, elems, printed, start, measured>>

\* (a variant that starts every line at the left edge)
line_start_left(total_width) == 0

\* max_line_width - total_width: how far MeasureLine advances the cursor
line_start(total_width) == width - total_width

\* RightAlignedState::MeasureLine
RightMeasureLine ==
    /\ state.k = "MeasureLine"
    /\ in_display_area(y)
    /\ LET remaining == state.remaining
           total_width == measure(remaining)
       IN /\ x' = advance(x, line_start(total_width))
          /\ measured' = total_width
          /\ state' = IF remaining = <<>> THEN NextWord(TRUE) ELSE DrawWord(remaining)
          /\ start' = [parser |-> parser,
                       carried |-> IF remaining = <<>> THEN NoToken ELSE Word(remaining),
                       x |-> advance(x, line_start(total_width)), y |-> y]
    /\ elems' = <<>>
    /\ ret' = Continue
    /\ event' = "MeasureLine"
    /\ prev' = Snapshot
    /\ UNCHANGED <<inputs, iterator_only, parser, y, printed>>

\* RightAlignedState::NextWord
RightNextWord ==
    /\ state.k = "NextWord"
    /\ in_display_area(y)
    /\ IF parser < Len(tokens)
       THEN LET token == tokens[parser + 1] IN
            /\ parser' = parser + 1
            /\ ret' = Continue
            /\ CASE token.t = "Word" ->
                      /\ state' = IF state.first_word \/ fits_in_line(x, str_width(token.w))
                                  THEN DrawWord(token.w) ELSE LineBreak(token.w)
                      /\ event' = IF state.first_word THEN "NextWordFirst"
                                  ELSE IF fits_in_line(x, str_width(token.w))
                                       THEN "NextWordFits" ELSE "NextWordWrap"
                      /\ UNCHANGED <<x, elems>>
                 [] token.t = "Whitespace" /\ state.first_word ->
                      /\ event' = "NextWordLeadingSpace"
                      /\ UNCHANGED <<state, x, elems>>
                 [] token.t = "Whitespace" /\ ~state.first_word ->
                      IF fits_in_line(x, total_char_width(" "))
                      THEN /\ x' = advance(x, total_char_width(" "))
                           /\ state' = DrawWhitespace(token.n - 1, 1)
                           /\ elems' = Append(elems, Space(total_char_width(" "), 1))
                           /\ event' = "NextWordSpace"
                      ELSE /\ state' = NextWord(state.first_word)
                           /\ event' = "NextWordSpaceDrop"
                           /\ UNCHANGED <<x, elems>>
                 [] token.t = "NewLine" ->
                      /\ state' = LineBreak(<<>>)
                      /\ event' = "NextWordNewLine"
                      /\ UNCHANGED <<x, elems>>
       ELSE /\ ret' = None
            /\ event' = "NextWordNone"
            /\ UNCHANGED <<parser, state, x, elems>>
    /\ prev' = Snapshot
    /\ UNCHANGED <<inputs, iterator_only, y, printed, start, measured>>

\* RightAlignedState::DrawWord
RightDrawWord ==
    /\ state.k = "DrawWord"
    /\ in_display_area(y)
    /\ LET chars == state.chars IN
       IF chars # <<>>
       THEN LET c == Head(chars) IN
            IF fits_in_line(x, total_char_width(c))
            THEN /\ x' = advance(x, total_char_width(c))
                 /\ state' = DrawCharacter(Tail(chars), 1)
                 /\ elems' = Append(elems, PrintedCharacter(c))
                 /\ printed' = Append(printed, c)
                 /\ event' = "DrawWord"
            ELSE /\ state' = LineBreak(chars)
                 /\ event' = "DrawWordWrap"
                 /\ UNCHANGED <<x, elems, printed>>
       ELSE /\ state' = NextWord(FALSE)
            /\ event' = "DrawWordEnd"
            /\ UNCHANGED <<x, elems, printed>>
    /\ ret' = Continue
    /\ prev' = Snapshot
    /\ UNCHANGED <<inputs, iterator_only, parser, y, start, measured>>

\* RightAlignedState::DrawWhitespace
RightDrawWhitespace ==
    /\ state.k = "DrawWhitespace"
    /\ in_display_area(y)
    /\ IF state.it > 0
       THEN /\ state' = DrawWhitespace(state.n, state.it - 1)
            /\ ret' = Pixel
            /\ event' = "DrawWhitespacePixel"
            /\ UNCHANGED <<x, elems>>
       ELSE /\ ret' = Continue
            /\ IF state.n = 0
               THEN /\ state' = NextWord(FALSE)
                    /\ event' = "DrawWhitespaceEnd"
                    /\ UNCHANGED <<x, elems>>
               ELSE IF fits_in_line(x, total_char_width(" "))
                    THEN /\ x' = advance(x, total_char_width(" "))
                         /\ state' = DrawWhitespace(state.n - 1, 1)
                         /\ elems' = Append(elems, Space(total_char_width(" "), 1))
                         /\ event' = "DrawWhitespaceNext"
                    ELSE /\ state' = LineBreak(<<>>)
                         /\ event' = "DrawWhitespaceWrap"
                         /\ UNCHANGED <<x, elems>>
    /\ prev' = Snapshot
    /\ UNCHANGED <<inputs, iterator_only, parser, y, printed, start, measured>>

\* RightAlignedState::DrawCharacter
RightDrawCharacter ==
    /\ state.k = "DrawCharacter"
    /\ in_display_area(y)
    /\ IF state.it > 0
       THEN /\ state' = DrawCharacter(state.chars, state.it - 1)
            /\ ret' = Pixel
            /\ event' = "DrawCharacterPixel"
       ELSE /\ state' = DrawWord(state.chars)
            /\ ret' = Continue
            /\ event' = "DrawCharacterEnd"
    /\ prev' = Snapshot
    /\ UNCHANGED <<inputs, iterator_only, parser, x, y, elems, printed, start, measured>>

RightNext ==
    \/ RightOutside
    \/ RightLineBreak
    \/ RightMeasureLine
    \/ RightNextWord
    \/ RightDrawWord
    \/ RightDrawWhitespace
    \/ RightDrawCharacter

RightSpec == RightInit /\ [][RightNext]_vars

\* the caller keeps calling next()
RightFairSpec == RightSpec /\ WF_vars(RightNext)

\* Either machine lays out the text of a text box.
TextBoxInit == Init \/ RightInit

TextBoxNext == Next \/ RightNext

TextBoxSpec == TextBoxInit /\ [][TextBoxNext]_vars

\* ------------------------------------------------------------------------
\* The cursor and space configuration API, call by call.  x is the position
\* of the LineCursor, y the line of the Cursor, ret what the last call
\* returned.

\* Result<i32, i32> of move_cursor
Ok(v) == [e |-> "Ok", v |-> v]
Err(v) == [e |-> "Err", v |-> v]

\* what a query returned: the call, its argument and its value
Returned(call, arg, value) == [e |-> call, arg |-> arg, value |-> value]

\* (a variant that moves without looking at the ends of the line)
move_cursor_unchecked(position, by) ==
    [position |-> position + by, result |-> Ok(by)]

\* LineCursor::move_cursor: the position after the call and the result
move_cursor(position, by) ==
    IF by < 0
    THEN LET abs == -by
         IN IF abs <= position
            THEN [position |-> position - abs, result |-> Ok(by)]
            ELSE [position |-> position, result |-> Err(-position)]
    ELSE IF by <= space(position)
         THEN [position |-> position + by, result |-> Ok(by)]
         ELSE [position |-> position, result |-> Err(space(position))]

\* LineCursor::new, Cursor::line: the position of a fresh line cursor
line_cursor_new == 0

\* UniformSpaceConfig after consume(n): consume calls peek_next_width on self
\* and assigns nothing
space_width_after_consume(n) == space_width

\* UniformSpaceConfig after peek_next_width(n): the receiver is &self
space_width_after_peek(n) == space_width

\* the cursor as TopAligned::apply_vertical_alignment is handed it
TheCursor == [y |-> y, width |-> width, height |-> height]

\* (a variant that moves the cursor down to the last line of the box)
apply_vertical_alignment_bottom(cursor) ==
    [cursor EXCEPT !.y = cursor.height - line_height]

\* TopAligned::apply_vertical_alignment: nothing to do here
apply_vertical_alignment(cursor) == cursor

\* Cursor::in_display_area of a cursor whose lines are lh high
in_display_area_of(line, lh) ==
    0 <= line /\ line <= bottom_right - lh + 1

\* base_line_height of the font the cursor was made for
LineHeights == 1..MaxLineHeight

\* the distances move_cursor is asked for: both directions, past both ends
Distances == (0 - MaxWidth - 1)..(MaxWidth + 1)

\* the lines Cursor.y is put on: above the box, in it, below it
Lines == (0 - 1)..(MaxHeight + 1)

\* no text is being laid out while the API is called
NoText ==
    /\ tokens = <<>>
    /\ alignment = [STARTING_SPACES |-> TRUE, ENDING_SPACES |-> TRUE]
    /\ parser = 0
    /\ carried_token = NoToken
    /\ current_token = NoIterator
    /\ first_word = TRUE
    /\ elems = <<>>
    /\ printed = <<>>
    /\ start = [parser |-> 0, carried |-> NoToken, x |-> 0, y |-> 0]
    /\ wrap_due = FALSE
    /\ wrapped = {}
    /\ consumed = 0
    /\ dropped = {}
    /\ state = NoState
    /\ measured = NoWidth

\* LineCursor::new(width, tab_width)
LineCursorInit ==
    /\ NoText
    /\ width \in 0..MaxWidth
    /\ height = MaxHeight
    /\ space_width = CharWidth
    /\ x = line_cursor_new
    /\ y = 0
    /\ ret = Continue
    /\ event = "Init"
    /\ prev = Snapshot

\* Cursor::new(bounds, base_line_height, line_height, tab_width)
CursorInit ==
    /\ NoText
    /\ width \in 0..MaxWidth
    /\ height \in 0..MaxHeight
    /\ space_width = CharWidth
    /\ x = line_cursor_new
    /\ y = 0
    /\ ret = Continue
    /\ event = "Init"
    /\ prev = Snapshot

\* UniformSpaceConfig::new(space_width)
ConfigInit ==
    /\ NoText
    /\ width = MaxWidth
    /\ height = MaxHeight
    /\ space_width \in SpaceWidths
    /\ x = line_cursor_new
    /\ y = 0
    /\ ret = Continue
    /\ event = "Init"
    /\ prev = Snapshot

\* what no call of the cursor API touches
text_only == <<tokens, alignment, parser, elems, printed, start, state, measured>>

\* Cursor::line
CursorLine ==
    /\ x' = line_cursor_new
    /\ ret' = Continue
    /\ event' = "Line"
    /\ prev' = Snapshot
    /\ UNCHANGED <<text_only, iterator_only, width, height, space_width, y>>

\* LineCursor::move_cursor
CursorMoveCursor ==
    \E by \in Distances :
        /\ x' = move_cursor(x, by).position
        /\ ret' = Returned("MoveCursor", by, move_cursor(x, by).result)
        /\ event' = "MoveCursor"
        /\ prev' = Snapshot
        /\ UNCHANGED <<text_only, iterator_only, width, height, space_width, y>>

\* LineCursor::carriage_return
CursorCarriageReturn ==
    /\ x' = carriage_return(x)
    /\ ret' = Continue
    /\ event' = "CarriageReturn"
    /\ prev' = Snapshot
    /\ UNCHANGED <<text_only, iterator_only, width, height, space_width, y>>

\* LineCursor::fits_in_line
CursorFitsInLine ==
    \E w \in 0..(MaxWidth + 1) :
        /\ ret' = Returned("FitsInLine", w, fits_in_line(x, w))
        /\ event' = "FitsInLine"
        /\ prev' = Snapshot
        /\ UNCHANGED <<text_only, iterator_only, width, height, space_width, x, y>>

\* tab widths of a line cursor
TabWidths == 1..MaxTabWidth

\* the position after next_tab_width: the receiver is &self
position_after_next_tab_width(position) == position

\* LineCursor::next_tab_width
CursorNextTabWidth ==
    \E t \in TabWidths :
        /\ ret' = Returned("NextTabWidth", t, next_tab_width_of(x, t))
        /\ x' = position_after_next_tab_width(x)
        /\ event' = "NextTabWidth"
        /\ prev' = Snapshot
        /\ UNCHANGED <<text_only, iterator_only, width, height, space_width, y>>

\* LineCursor::space
CursorSpace ==
    /\ ret' = Returned("Space", 0, space(x))
    /\ event' = "Space"
    /\ prev' = Snapshot
    /\ UNCHANGED <<text_only, iterator_only, width, height, space_width, x, y>>

\* the alignments assign Cursor.y
CursorSetY ==
    \E line \in Lines :
        /\ y' = line
        /\ ret' = Continue
        /\ event' = "SetY"
        /\ prev' = Snapshot
        /\ UNCHANGED <<text_only, iterator_only, width, height, space_width, x>>

\* Cursor::new_line
CursorNewLine ==
    /\ y <= MaxHeight
    /\ y' = new_line(y)
    /\ ret' = Continue
    /\ event' = "NewLine"
    /\ prev' = Snapshot
    /\ UNCHANGED <<text_only, iterator_only, width, height, space_width, x>>

\* Cursor::in_display_area
CursorInDisplayArea ==
    \E lh \in LineHeights :
        /\ ret' = Returned("InDisplayArea", lh, in_display_area_of(y, lh))
        /\ event' = "InDisplayArea"
        /\ prev' = Snapshot
        /\ UNCHANGED <<text_only, iterator_only, width, height, space_width, x, y>>

\* TopAligned::apply_vertical_alignment
CursorApplyVerticalAlignment ==
    /\ y' = apply_vertical_alignment(TheCursor).y
    /\ width' = apply_vertical_alignment(TheCursor).width
    /\ height' = apply_vertical_alignment(TheCursor).height
    /\ ret' = Continue
    /\ event' = "ApplyVerticalAlignment"
    /\ prev' = Snapshot
    /\ UNCHANGED <<text_only, iterator_only, space_width, x>>

\* UniformSpaceConfig::peek_next_width
ConfigPeekNextWidth ==
    \E n \in 0..(MaxSpaces + 1) :
        /\ ret' = Returned("PeekNextWidth", n, peek_next_width(n))
        /\ space_width' = space_width_after_peek(n)
        /\ event' = "PeekNextWidth"
        /\ prev' = Snapshot
        /\ UNCHANGED <<text_only, iterator_only, width, height, x, y>>

\* UniformSpaceConfig::consume
ConfigConsume ==
    \E n \in 0..(MaxSpaces + 1) :
        /\ ret' = Returned("Consume", n, consume(n))
        /\ space_width' = space_width_after_consume(n)
        /\ event' = "Consume"
        /\ prev' = Snapshot
        /\ UNCHANGED <<text_only, iterator_only, width, height, x, y>>

LineCursorNext ==
    \/ CursorLine
    \/ CursorMoveCursor
    \/ CursorCarriageReturn
    \/ CursorFitsInLine
    \/ CursorSpace
    \/ CursorNextTabWidth

LineCursorSpec == LineCursorInit /\ [][LineCursorNext]_vars

CursorNext ==
    \/ CursorSetY
    \/ CursorNewLine
    \/ CursorInDisplayArea
    \/ CursorApplyVerticalAlignment

CursorSpec == CursorInit /\ [][CursorNext]_vars

ConfigNext ==
    \/ ConfigPeekNextWidth
    \/ ConfigConsume

ConfigSpec == ConfigInit /\ [][ConfigNext]_vars

\* ------------------------------------------------------------------------
\* rendering/cursor.rs: LineCursor::move_cursor at the width of its integers.
\* A u32 is kept as its two halves of 16 bits, <<high, low>>; an i32 is an
\* integer of i32_MIN..i32_MAX.

u16_values == 65536
i32_MAX == 2147483647
i32_MIN == 0 - i32_MAX - 1

\* a distance below 2^31 as a u32
u32_of(n) == <<n \div u16_values, n % u16_values>>

\* `as u32` of an i32: the same 32 bits read without a sign
as_u32(i) == <<(i \div u16_values) % u16_values, i % u16_values>>

\* `as i32` of a u32: the same 32 bits read with a sign
as_i32(a) ==
    IF a[1] < u16_values \div 2
    THEN a[1] * u16_values + a[2]
    ELSE (a[1] - u16_values) * u16_values + a[2]

\* a <= b of two u32
u32_le(a, b) == a[1] < b[1] \/ (a[1] = b[1] /\ a[2] <= b[2])

\* a - b of two u32 where the build does not check for overflow
wrapping_sub(a, b) ==
    LET low == a[2] - b[2]
        borrow == IF low < 0 THEN 1 ELSE 0
    IN <<(a[1] - b[1] - borrow) % u16_values, low % u16_values>>

\* a + b of two u32 where the build does not check for overflow
wrapping_add(a, b) ==
    LET low == a[2] + b[2]
        carry == low \div u16_values
    IN <<(a[1] + b[1] + carry) % u16_values, low % u16_values>>

\* a + b of two u32 does not fit a u32
add_overflows(a, b) == a[1] + b[1] + (a[2] + b[2]) \div u16_values >= u16_values

\* -i and i.abs() of an i32 where the build does not check for overflow
wrapping_neg(i) == IF i = i32_MIN THEN i32_MIN ELSE 0 - i

\* the call panicked: an overflow in a build that checks for it
Panic == [e |-> "Panic"]

\* LineCursor::move_cursor on u32 and i32: the position after the call and
\* the result.  Whether an overflow panics or wraps depends on the build.
move_cursor_wide(w, position, by, overflow_checks) ==
    IF by < 0
    THEN IF by = i32_MIN /\ overflow_checks
         THEN [position |-> position, result |-> Panic]
         ELSE LET abs == as_u32(wrapping_neg(by))
              IN IF u32_le(abs, position)
                 THEN [position |-> wrapping_sub(position, abs), result |-> Ok(by)]
                 ELSE IF as_i32(position) = i32_MIN /\ overflow_checks
                      THEN [position |-> position, result |-> Panic]
                      ELSE [position |-> position,
                            result |-> Err(wrapping_neg(as_i32(position)))]
    ELSE IF ~u32_le(position, w) /\ overflow_checks
         THEN [position |-> position, result |-> Panic]
         ELSE LET space_left == as_i32(wrapping_sub(w, position))
              IN IF by <= space_left
                 THEN IF add_overflows(position, as_u32(by)) /\ overflow_checks
                      THEN [position |-> position, result |-> Panic]
                      ELSE [position |-> wrapping_add(position, as_u32(by)),
                            result |-> Ok(by)]
                 ELSE [position |-> position, result |-> Err(space_left)]

\* line widths at both ends of u32 and on both sides of 2^31
WideWidths ==
    {u32_of(e) : e \in 0..MaxEdge}
        \cup {u32_of(i32_MAX - e) : e \in 0..MaxEdge}
        \cup {as_u32(i32_MIN + e) : e \in 0..MaxEdge}
        \cup {as_u32(0 - 1 - e) : e \in 0..MaxEdge}

\* the positions followed: within MaxEdge of an end of u32 or of 2^31
WidePositions == WideWidths

\* distances at both ends of i32 and on both sides of 0
WideDistances ==
    {i32_MIN + e : e \in 0..MaxEdge}
        \cup {e - MaxEdge : e \in 0..(2 * MaxEdge)}
        \cup {i32_MAX - e : e \in 0..MaxEdge}

\* LineCursor::new(width, tab_width)
WideCursorInit ==
    /\ NoText
    /\ width \in WideWidths
    /\ height = MaxHeight
    /\ space_width = CharWidth
    /\ x = u32_of(line_cursor_new)
    /\ y = 0
    /\ ret = Continue
    /\ event = "Init"
    /\ prev = Snapshot

\* LineCursor::move_cursor
WideMoveCursor ==
    \E by \in WideDistances, overflow_checks \in BOOLEAN :
        /\ move_cursor_wide(width, x, by, overflow_checks).position \in WidePositions
        /\ x' = move_cursor_wide(width, x, by, overflow_checks).position
        /\ ret' = Returned("MoveCursor", by,
                           move_cursor_wide(width, x, by, overflow_checks).result)
        /\ event' = "WideMoveCursor"
        /\ prev' = Snapshot
        /\ UNCHANGED <<text_only, iterator_only, width, height, space_width, y>>

\* LineCursor::carriage_return
WideCarriageReturn ==
    /\ x' = u32_of(carriage_return(x))
    /\ ret' = Continue
    /\ event' = "WideCarriageReturn"
    /\ prev' = Snapshot
    /\ UNCHANGED <<text_only, iterator_only, width, height, space_width, y>>

WideCursorNext ==
    \/ WideMoveCursor
    \/ WideCarriageReturn

WideCursorSpec == WideCursorInit /\ [][WideCursorNext]_vars

\* ------------------------------------------------------------------------
\* Notions used by the properties

\* the iterator has returned None
Drained == current_token = Done /\ ret = None

\* end of the protocol: the parser is exhausted and no token is carried
Terminated == Drained /\ parser = Len(tokens) /\ carried_token = NoToken

\* how much of a carried token is left to lay out
TokenSize(t) ==
    CASE t = NoToken -> 0
      [] t.t = "Word" -> Len(t.w) + 1
      [] t.t = "Whitespace" -> t.n + 1
      [] OTHER -> 1

\* ------------------------------------------------------------------------
\* C1: the cross-line protocol terminates: from every token stream and line
\* width the chain of iterators reaches the state where the parser is
\* exhausted and nothing is carried, and every drained iterator that was
\* constructed with something left to do has taken a token from the parser
\* or left a smaller carried token than it was given.
C1_IteratorProgress ==
    (Drained /\ (start.parser < Len(tokens) \/ start.carried # NoToken))
        => \/ parser > start.parser
           \/ TokenSize(carried_token) < TokenSize(start.carried)

C1_Termination == <>Terminated /\ []C1_IteratorProgress

\* an iterator resumed from a carried word on a line narrower than a glyph is
\* drained, and the protocol has ended
C1_Witness ==
    /\ Terminated
    /\ start.carried # NoToken
    /\ start.carried.t \in {"Word", "Whitespace", "ExtraCharacter"}
    /\ Len(tokens) = MaxTokens
    /\ y >= MaxTokens

\* ------------------------------------------------------------------------
\* C2: in every reachable state, within and across iterators, the cursor's
\* horizontal position lies between 0 and the line width.
C2_CursorInLine == 0 <= x /\ x <= width

\* whitespace was committed with advance_unchecked on a later line of the
\* chain, and a cursor-forward sequence was clamped at the end of a line
C2_Witness ==
    \/ /\ event = "WhitespaceAll"
       /\ x > prev.x
       /\ y > 0
    \/ /\ event = "CursorForward"
       /\ prev.x + cursor_delta(1) > width
       /\ x = width
       /\ prev.x > 0

\* ------------------------------------------------------------------------
\* Elements of a line

\* width of one element: a Space carries its width, a character is one glyph
ElementWidth(el) ==
    CASE el.e = "Space" -> el.width
      [] el.e = "PrintedCharacter" -> CharWidth
      [] OTHER -> 0

RECURSIVE WidthSum(_)
WidthSum(els) == IF els = <<>> THEN 0 ELSE ElementWidth(Head(els)) + WidthSum(Tail(els))

IsBackward(tok) == tok.t = "EscapeSequence" /\ tok.seq = "CursorBackward"

\* the tokens the current iterator has taken from the parser
TakenHere == {tokens[i] : i \in (start.parser + 1)..parser}

\* all elements of the line are characters of one and the same Word token
SingleWordLine ==
    \E tok \in TakenHere \cup {start.carried} :
        /\ tok.t = "Word"
        /\ \A i \in 1..Len(elems) :
             \/ elems[i].e = "PrintedCharacter" /\ \E j \in 1..Len(tok.w) : elems[i].c = tok.w[j]
             \/ elems[i].e = "Space" /\ elems[i].count = 1

\* C3 as stated: on every line the widths of the emitted elements add up to
\* at most the line width, unless the line is a single forced first word.
C3_AsStated == WidthSum(elems) <= width \/ SingleWordLine

\* C3, amended: on every line on which no cursor-backward sequence has been
\* taken from the parser, the widths of the emitted elements add up to at most
\* the line width (a first word included); on any line the sum less the
\* distance the cursor has been moved back is the cursor's advance.
C3_WidthBound ==
    /\ (\A tok \in TakenHere : ~IsBackward(tok)) => WidthSum(elems) <= width
    /\ (current_token.k \in {"ProcessToken", "Word"} /\ \A tok \in TakenHere : ~IsBackward(tok))
          => WidthSum(elems) = x - start.x

\* a line is filled to its last column by a word and a tab
C3_Witness ==
    /\ WidthSum(elems) = width
    /\ Len(elems) >= 3
    /\ \E i \in 1..Len(elems) : elems[i].e = "PrintedCharacter"
    /\ \E i \in 1..Len(elems) : elems[i].e = "Space"

\* ------------------------------------------------------------------------
\* Characters of the input

RECURSIVE WordCharsFrom(_)
WordCharsFrom(i) ==
    IF i > Len(tokens) THEN <<>>
    ELSE IF tokens[i].t = "Word" THEN tokens[i].w \o WordCharsFrom(i + 1)
    ELSE WordCharsFrom(i + 1)

\* the characters of all Word tokens, in input order
AllWordChars == WordCharsFrom(1)

IsPrefix(a, b) == Len(a) <= Len(b) /\ a = SubSeq(b, 1, Len(a))

\* every character emitted so far was emitted once, in input order, and once
\* the protocol has ended every character has been emitted
InputOrderKept ==
    /\ IsPrefix(printed, AllWordChars)
    /\ Terminated => printed = AllWordChars

\* C4 as stated: on a line at least one glyph wide, the chain of iterators
\* emits every character of every Word token exactly once, in input order.
C4_AsStated == width >= CharWidth => InputOrderKept

\* C4, amended: on a line at least one glyph and at least one space wide, the
\* chain of iterators emits every character of every Word token exactly once,
\* in input order, a non-breaking space as Space(peek_next_width(1), 1).
C4_CarryRoundTrip ==
    /\ (width >= CharWidth /\ width >= peek_next_width(1)) => InputOrderKept
    /\ event = "WordChar" =>
         /\ printed # <<>>
         /\ ret = IF printed[Len(printed)].ch = "nbsp" THEN Space(peek_next_width(1), 1)
                  ELSE PrintedCharacter(printed[Len(printed)])

\* a word was split by a wrap, its rest was carried to the next iterator, and
\* the protocol has ended with all characters emitted
C4_Witness ==
    /\ Terminated
    /\ printed = AllWordChars
    /\ start.carried.t = "Word"
    /\ Len(start.carried.w) < Len(tokens[start.parser].w)
    /\ width >= CharWidth

\* ------------------------------------------------------------------------
\* What follows a token in the input, stated on the token stream itself.

\* the first position from i on that holds neither a Word nor an escape
\* sequence (Len(tokens) + 1 if there is none)
RunEnd(i) ==
    CHOOSE j \in i..(Len(tokens) + 1) :
        /\ j = Len(tokens) + 1 \/ tokens[j].t \notin {"Word", "EscapeSequence"}
        /\ \A k \in i..(j - 1) : tokens[k].t \in {"Word", "EscapeSequence"}

RECURSIVE RunWordsWidth(_, _)
RunWordsWidth(i, j) ==
    IF i >= j THEN 0
    ELSE (IF tokens[i].t = "Word" THEN Len(tokens[i].w) * CharWidth ELSE 0)
            + RunWordsWidth(i + 1, j)

EndsAtFallback(i) ==
    /\ RunEnd(i) <= Len(tokens)
    /\ tokens[RunEnd(i)].t = "Break"
    /\ tokens[RunEnd(i)].c # NoChar

\* a Word, or a Break with a fallback character, comes next (escape
\* sequences aside)
WordAhead(i) ==
    \/ \E k \in i..(RunEnd(i) - 1) : tokens[k].t = "Word"
    \/ EndsAtFallback(i)

\* the widths of the Words of the run, and of the fallback glyph if the run
\* ends at one
AheadWidth(i) == RunWordsWidth(i, RunEnd(i)) + (IF EndsAtFallback(i) THEN CharWidth ELSE 0)

BreakEvents == {"BreakSkip", "BreakHyphen", "BreakExtra", "BreakWrap"}

WhitespaceEvents ==
    {"WhitespaceAll", "WhitespaceSome", "WhitespaceNoneFit", "WhitespaceWrap",
     "WhitespaceSkip"}

\* the token the last step processed, and the one after it in the input
Processed == prev.current_token.tok

WordFollows == prev.parser < Len(tokens) /\ tokens[prev.parser + 1].t = "Word"

Following == tokens[prev.parser + 1]

\* the last step left the line open and emitted nothing
SkippedSilently ==
    /\ ret = Continue
    /\ x = prev.x /\ y = prev.y
    /\ carried_token = prev.carried_token
    /\ current_token = IF prev.parser < Len(tokens) THEN ProcessToken(Following) ELSE Done
    /\ parser = IF prev.parser < Len(tokens) THEN prev.parser + 1 ELSE prev.parser

\* the last step ended the line, carrying t
LineEndedWith(t) ==
    /\ current_token = Done
    /\ carried_token = t
    /\ x = 0
    /\ y = prev.y + line_spacing
    /\ parser = prev.parser

\* ------------------------------------------------------------------------
\* C5 as stated: a Break emits nothing and leaves the line open whenever the
\* Word token that follows it fits in the remaining space.
C5_AsStated ==
    (event \in BreakEvents /\ WordFollows
        /\ str_width_nocr(Following.w) <= width - prev.x)
      => event = "BreakSkip" /\ SkippedSilently

\* C5, amended: a Break emits nothing and leaves the line open exactly when
\* no Word or fallback Break follows it, or the width of everything the
\* lookahead measures (all Words up to the next token that is neither a Word
\* nor an escape sequence, plus one glyph if that token is a Break with a
\* fallback character) fits in the remaining space; a soft hyphen inside a
\* word that fits the line up to its next break is never rendered.
C5_BreakSkipped ==
    event \in BreakEvents =>
        /\ event = "BreakSkip"
             <=> (~WordAhead(prev.parser + 1)
                    \/ AheadWidth(prev.parser + 1) <= width - prev.x)
        /\ event = "BreakSkip" => SkippedSilently

\* a soft hyphen inside a word that fits the line was passed over
C5_Witness ==
    /\ event = "BreakSkip"
    /\ Processed.c # NoChar
    /\ WordFollows
    /\ prev.x > 0
    /\ printed # <<>>
    /\ current_token = ProcessToken(Following)

\* ------------------------------------------------------------------------
\* C6: when a Break(Some(c)) is processed, the Word after it does not fit in
\* the remaining space and one glyph does, the iterator returns
\* PrintedCharacter(c) as the last element of the line and ends the line
\* carrying Break(None); the next iterator processes the following word
\* first: its first element is the first character of that word, and it does
\* not emit c again.
C6_SoftHyphenWrap ==
    /\ (event \in BreakEvents /\ Processed.c # NoChar /\ WordFollows
          /\ str_width_nocr(Following.w) > width - prev.x
          /\ CharWidth <= width - prev.x)
        => /\ event = "BreakHyphen"
           /\ ret = PrintedCharacter(Processed.c)
           /\ elems # <<>> /\ elems[Len(elems)] = ret
           /\ LineEndedWith(BreakNone)
    /\ (current_token = Done /\ carried_token = BreakNone /\ parser >= 1
          /\ tokens[parser].t = "Break" /\ tokens[parser].c # NoChar)
        => elems # <<>> /\ elems[Len(elems)] = PrintedCharacter(tokens[parser].c)
    /\ (start.carried = BreakNone /\ start.parser >= 1
          /\ tokens[start.parser].t = "Break" /\ tokens[start.parser].c # NoChar
          /\ start.parser < Len(tokens) /\ tokens[start.parser + 1].t = "Word")
        => LET w == tokens[start.parser + 1].w IN
           /\ \A i \in 1..Len(elems) : elems[i] # PrintedCharacter(tokens[start.parser].c)
           /\ elems # <<>> => elems[1] = char_element(w[1])
           /\ (Drained /\ w[1].ch = "c") => elems # <<>>

\* the hyphen ended one line and the following word opened the next
C6_Witness ==
    /\ Drained
    /\ start.carried = BreakNone /\ start.parser >= 2
    /\ tokens[start.parser].t = "Break" /\ tokens[start.parser].c # NoChar
    /\ tokens[start.parser - 1].t = "Word"
    /\ start.parser < Len(tokens) /\ tokens[start.parser + 1].t = "Word"
    /\ Len(elems) = Len(tokens[start.parser + 1].w)
    /\ printed = AllWordChars

\* ------------------------------------------------------------------------
\* what C7 says of the line on which the Break is processed
C7_CurrentLine ==
    (event \in BreakEvents /\ Processed.c # NoChar
        /\ WordAhead(prev.parser + 1)
        /\ AheadWidth(prev.parser + 1) > width - prev.x
        /\ CharWidth > width - prev.x)
      => /\ event = "BreakExtra"
         /\ ret = Continue
         /\ LineEndedWith(ExtraCharacter(Processed.c))

\* C7 as stated: when a Break(Some(c)) must wrap and c does not fit, nothing
\* is emitted for it, the line ends carrying ExtraCharacter(c), and the next
\* iterator emits PrintedCharacter(c) as its first element.
C7_AsStated ==
    /\ C7_CurrentLine
    /\ (Drained /\ start.carried.t = "ExtraCharacter")
         => elems # <<>> /\ elems[1] = PrintedCharacter(start.carried.c)

\* C7, amended: ... and the next iterator emits PrintedCharacter(c) as its
\* first element, before any character of the following word, if one glyph
\* fits in the empty line; on a line narrower than a glyph it emits nothing
\* and ends with no carried token.
C7_FallbackCarried ==
    /\ C7_CurrentLine
    /\ (Drained /\ start.carried.t = "ExtraCharacter")
         => IF width >= CharWidth
            THEN elems # <<>> /\ elems[1] = PrintedCharacter(start.carried.c)
            ELSE elems = <<>> /\ carried_token = NoToken /\ parser = start.parser
    /\ (start.carried.t = "ExtraCharacter" /\ elems # <<>>)
         => elems[1] = PrintedCharacter(start.carried.c)

\* the fallback did not fit after a word, was carried, and opened the next
\* line before the following word
C7_Witness ==
    /\ Drained
    /\ start.carried.t = "ExtraCharacter"
    /\ Len(elems) >= 2
    /\ elems[1] = PrintedCharacter(start.carried.c)
    /\ elems[2].e = "PrintedCharacter" /\ elems[2].c.ch = "c"
    /\ start.parser >= 2 /\ tokens[start.parser - 1].t = "Word"

\* ------------------------------------------------------------------------
\* The first token an iterator processes, and the position in the input of
\* the token after it
ResumedFrom == start.carried # NoToken /\ ~is_line_end_marker(start.carried)

FirstToken ==
    IF ResumedFrom THEN start.carried
    ELSE IF start.parser < Len(tokens) THEN tokens[start.parser + 1]
    ELSE NoToken

SecondIndex == IF ResumedFrom THEN start.parser + 1 ELSE start.parser + 2

RECURSIVE RenderedWidth(_)
RenderedWidth(w) == IF w = <<>> THEN 0 ELSE char_width(Head(w)) + RenderedWidth(Tail(w))

\* the line begins with the elements of the characters of w, in order
BeginsWithWord(w) ==
    /\ Len(elems) >= Len(w)
    /\ \A j \in 1..Len(w) : elems[j] = char_element(w[j])

\* the line iterator: the first element of such a line is the first character
\* of the word, placed at the start of the line; the whitespace arm skips the
\* run without a Space
C8_LineIterator ==
    (/\ state = NoState
     /\ ~alignment.STARTING_SPACES
     /\ current_token # Idle
     /\ FirstToken.t = "Whitespace"
     /\ SecondIndex <= Len(tokens)
     /\ tokens[SecondIndex].t = "Word")
      => LET w == tokens[SecondIndex].w IN
         /\ elems # <<>> => elems[1] = char_element(w[1])
         /\ (Len(elems) = 1 /\ event = "WordChar") => prev.x = 0 /\ prev.y = start.y
         /\ (Drained /\ char_width(w[1]) <= width) => elems # <<>>
         /\ (event \in WhitespaceEvents /\ prev.first_word)
               => event = "WhitespaceSkip" /\ SkippedSilently

\* the right-aligned pixel iterator: the line is measured as if the run were
\* not there, NextWord passes the run without drawing or moving, and the first
\* thing drawn on the line is the first character of the word, at the offset
\* the measurement gave
C8_RightAligned ==
    (/\ state \notin {NoState, MeasureLine(<<>>)}
     /\ start.carried = NoToken
     /\ start.parser + 2 <= Len(tokens)
     /\ tokens[start.parser + 1].t = "Whitespace"
     /\ tokens[start.parser + 2].t = "Word")
      => LET w == tokens[start.parser + 2].w IN
         /\ measured = measure_tokens(start.parser + 2, 0, 0, TRUE)
         /\ start.x = width - measured
         /\ elems # <<>> => elems[1] = PrintedCharacter(w[1])
         /\ (Len(elems) = 1 /\ event = "DrawWord") => prev.x = start.x /\ prev.y = start.y
         /\ event = "NextWordLeadingSpace"
               => x = prev.x /\ y = prev.y /\ elems = <<>> /\ ret = Continue
         /\ (event = "NextWordNone" /\ total_char_width(w[1]) <= width) => printed # <<>>

\* C8: with leading spaces disabled, a line that opens with a whitespace run
\* followed by a word emits no Space for the run, and the right-aligned
\* renderer neither draws nor measures one: the first element of the line is
\* the first character of the word.
C8_LeadingSpaces == C8_LineIterator /\ C8_RightAligned

\* the right-aligned renderer drew a line that opened with the longest
\* whitespace run, right-aligned and without a space
C8_RightWitness ==
    /\ state = NextWord(FALSE)
    /\ start.carried = NoToken
    /\ start.parser + 2 = Len(tokens)
    /\ tokens[start.parser + 1] = Whitespace(MaxSpaces)
    /\ tokens[start.parser + 2].t = "Word"
    /\ elems = [j \in 1..Len(tokens[start.parser + 2].w) |->
                   PrintedCharacter(tokens[start.parser + 2].w[j])]
    /\ x = width /\ start.x > 0 /\ start.y > 0

\* a line of a right-aligned text opened with the longest whitespace run and
\* the word after it was emitted
C8_Witness ==
    /\ state = NoState
    /\ ~alignment.STARTING_SPACES
    /\ Drained
    /\ FirstToken = Whitespace(MaxSpaces)
    /\ SecondIndex <= Len(tokens)
    /\ tokens[SecondIndex].t = "Word"
    /\ BeginsWithWord(tokens[SecondIndex].w)
    /\ start.y > 0

\* ------------------------------------------------------------------------
\* what C9 says of the line on which the whitespace run is processed, and of
\* the start of the next line
C9_Wrap ==
    /\ (event \in WhitespaceEvents /\ ~alignment.ENDING_SPACES /\ ~prev.first_word
          /\ WordFollows /\ str_width_nocr(Following.w) > width - prev.x)
        => /\ event = "WhitespaceWrap"
           /\ ret = Continue
           /\ LineEndedWith(BreakNone)
           /\ prev.parser \in wrapped
    /\ (~alignment.ENDING_SPACES /\ start.carried = BreakNone /\ start.parser \in wrapped
          /\ start.parser < Len(tokens) /\ tokens[start.parser + 1].t = "Word")
        => LET w == tokens[start.parser + 1].w IN
           /\ elems # <<>> => elems[1] = char_element(w[1])
           /\ (Len(elems) = 1 /\ event = "WordChar") => prev.x = 0 /\ prev.y = start.y
           /\ (Drained /\ RenderedWidth(w) <= width) => BeginsWithWord(w)

\* every character of the word after a wrapped whitespace run has been emitted
SecondWordsInFull ==
    \A i \in wrapped :
        (i < Len(tokens) /\ tokens[i + 1].t = "Word")
            => \A j \in 1..Len(tokens[i + 1].w) :
                   \E k \in 1..Len(printed) : printed[k] = tokens[i + 1].w[j]

\* C9 as stated: with trailing spaces disabled, a whitespace run after a word
\* and before a second word that is too wide for the remaining space emits no
\* Space and ends the line carrying Break(None), and the second word is emitted
\* in full starting at the beginning of the next line.
C9_AsStated == C9_Wrap /\ (Terminated => SecondWordsInFull)

\* C9, amended: ... and the second word starts at the beginning of the next
\* line; it is emitted in full if the line is at least one space wide (a
\* non-breaking space of the word that does not fit an empty line is dropped),
\* and it is whole on that next line if it is no wider than the line.
C9_TrailingSpaces ==
    /\ C9_Wrap
    /\ (Terminated /\ width >= peek_next_width(1)) => SecondWordsInFull

\* "word", spaces, second word: the second word did not fit, the line was
\* wrapped without a Space, and the next line holds the second word
C9_Witness ==
    /\ ~alignment.ENDING_SPACES
    /\ Terminated
    /\ 2 \in wrapped
    /\ width >= peek_next_width(1)
    /\ start.carried = BreakNone /\ start.parser = 2
    /\ tokens[1].t = "Word" /\ tokens[2] = Whitespace(MaxSpaces) /\ tokens[3].t = "Word"
    /\ BeginsWithWord(tokens[3].w)
    /\ Len(printed) = Len(tokens[1].w) + Len(tokens[3].w)
    /\ Len(tokens[3].w) > 1

\* ------------------------------------------------------------------------
\* C10 (its last clause): once a non-leading Whitespace(n) has been processed
\* with trailing spaces enabled and the lookahead found that the n spaces plus
\* the upcoming word do not fit the remaining space, the line ends at that
\* token: no character of the following word is emitted on the current line.
C10_AsStated == wrap_due => ~(event = "WordChar" /\ ret.e = "PrintedCharacter")

\* ------------------------------------------------------------------------
\* Whitespace runs that are rendered, stated on the step that processed them.

\* the step rendered the run (or found that none of its spaces can be)
RenderedEvents == {"WhitespaceAll", "WhitespaceSome", "WhitespaceNoneFit"}

\* the room left in the line before the step
RoomBefore == width - prev.x

\* the lookahead of the step found that the run and the word after it do not
\* fit the room left (a forced wrap)
ForcedWrap ==
    /\ ~prev.first_word
    /\ WordAhead(prev.parser + 1)
    /\ peek_next_width(Processed.n) + AheadWidth(prev.parser + 1) > RoomBefore

\* the largest k <= n whose peeked width is at most the room
MaxFitting(n, room) ==
    CHOOSE k \in 0..n :
        /\ peek_next_width(k) <= room
        /\ \A j \in (k + 1)..n : peek_next_width(j) > room

\* the largest k <= n whose peeked width is less than the room
MaxBelow(n, room) ==
    CHOOSE k \in 0..n :
        /\ k = 0 \/ peek_next_width(k) < room
        /\ \A j \in (k + 1)..n : peek_next_width(j) >= room

\* C11 as stated: a Whitespace(n) run rendered without a forced wrap emits
\* Space(width, k) where k is the largest k <= n with
\* peek_next_width(k) <= line width - cursor position, and width = consume(k).
C11_AsStated ==
    (event \in RenderedEvents /\ ~ForcedWrap)
        => LET k == MaxFitting(Processed.n, RoomBefore) IN
           IF k > 0 THEN ret = Space(consume(k), k) ELSE ret = Continue

\* what the scan does instead: k is the largest k <= n with
\* peek_next_width(k) < line width - cursor position
C11_StrictScan ==
    (event \in RenderedEvents /\ ~ForcedWrap)
        => LET k == MaxBelow(Processed.n, RoomBefore) IN
           /\ IF k > 0 THEN ret = Space(consume(k), k) ELSE ret = Continue
           /\ x = IF event = "WhitespaceAll" THEN prev.x + consume(k) ELSE 0

\* a run whose spaces fill the room exactly: the last of them is not emitted
C11_ExactFill ==
    /\ event \in RenderedEvents /\ ~ForcedWrap
    /\ peek_next_width(Processed.n) = RoomBefore

\* ------------------------------------------------------------------------
\* the number of spaces the step emitted
SpacesEmitted == IF ret.e = "Space" THEN ret.count ELSE 0

\* the step rendered the run in part: the line ended before its last space
RenderedInPart == event \in {"WhitespaceSome", "WhitespaceNoneFit"} /\ ~ForcedWrap

\* C12 as stated: when a Whitespace(n) run is rendered without a forced wrap
\* and only k of its n spaces fit (0 <= k < n), the line ends carrying
\* Whitespace(n - k): emitted plus carried spaces add up to n.
C12_AsStated ==
    RenderedInPart => LineEndedWith(Whitespace(Processed.n - SpacesEmitted))

\* C12, amended: if k > 0 spaces fit the line ends carrying Whitespace(n - k),
\* and emitted plus carried spaces add up to n; if none fits, one space is
\* taken as the line break: the line ends carrying Whitespace(n - 1), or
\* Break(None) when n = 1, and nothing is emitted.
C12_RemainderCarried ==
    RenderedInPart =>
        LET n == Processed.n
            k == SpacesEmitted
        IN /\ k < n
           /\ k = MaxBelow(n, RoomBefore)
           /\ k > 0 => LineEndedWith(Whitespace(n - k))
           /\ k = 0 => /\ ret = Continue
                       /\ LineEndedWith(IF n > 1 THEN Whitespace(n - 1) ELSE BreakNone)

\* a run of two spaces behind other content, with room left in the line but none
\* that the scan takes: nothing is emitted and one space is carried
C12_Witness ==
    /\ RenderedInPart
    /\ SpacesEmitted = 0
    /\ prev.x > 0 /\ RoomBefore > 0
    /\ Processed = Whitespace(2)
    /\ LineEndedWith(Whitespace(1))

\* ------------------------------------------------------------------------
\* the step processed a Word token (before any of its characters)
WordEvents == {"WordFirst", "WordFits", "WordDeferred"}

\* C13: a Word token that is not the first word of its line and whose whole
\* width does not fit in the remaining space emits nothing on the current
\* line: the line ends, the cursor is at the start of the next line, and the
\* entire Word token is the carried token.
C13_WordDeferred ==
    (event \in WordEvents /\ ~prev.first_word
        /\ str_width_nocr(Processed.w) > RoomBefore)
        => /\ event = "WordDeferred"
           /\ ret = Continue
           /\ LineEndedWith(Processed)
           /\ Processed = tokens[prev.parser]

\* a two-character word behind other content, with room for one of its
\* characters only, is carried whole
C13_Witness ==
    /\ event = "WordDeferred"
    /\ Len(Processed.w) = MaxWordLen
    /\ RoomBefore >= CharWidth
    /\ prev.x > 0
    /\ carried_token = Processed

\* ------------------------------------------------------------------------
\* Per-character emission of a word (State::Word).

\* the characters the step found left in the word
CharsBefore == prev.current_token.chars

\* the step was given a character that does not fit in the room left
CharDidNotFit ==
    /\ event \in {"WordChar", "WordSplit", "WordDrop"}
    /\ char_width(Head(CharsBefore)) > RoomBefore

\* the characters of the Word token that c belongs to, from c on
SuffixFrom(c) == SubSeq(tokens[c.tok].w, c.idx, Len(tokens[c.tok].w))

\* how often the character c has been emitted
TimesPrinted(c) == Cardinality({k \in 1..Len(printed) : printed[k] = c})

\* the Word tokens that are wider than the line
WideWords ==
    {i \in 1..Len(tokens) : tokens[i].t = "Word" /\ RenderedWidth(tokens[i].w) > width}

EmittedOnce(i) == \A j \in 1..Len(tokens[i].w) : TimesPrinted(tokens[i].w[j]) = 1

\* every character of the word fits a line that is empty
EachCharFits(i) == \A j \in 1..Len(tokens[i].w) : char_width(tokens[i].w[j]) <= width

\* the first half of C14: a character that does not fit on a line that has
\* content ends the line, and the carried token is the Word made of the
\* characters not emitted so far, beginning with that character
C14_SuffixCarried ==
    (CharDidNotFit /\ prev.x > 0)
        => /\ event = "WordSplit"
           /\ ret = Continue
           /\ LineEndedWith(Word(CharsBefore))
           /\ CharsBefore = SuffixFrom(Head(CharsBefore))
           /\ \A k \in 1..Len(CharsBefore) : TimesPrinted(CharsBefore[k]) = 0
           /\ \A j \in 1..(Head(CharsBefore).idx - 1) :
                  TimesPrinted(tokens[Head(CharsBefore).tok].w[j]) = 1

\* C14 as stated: during per-character emission, a character that does not fit
\* on a line that has content (x > 0) ends the line carrying the Word of the
\* not yet emitted suffix that begins with it; a word wider than the line is
\* therefore split across lines with every character emitted once.
C14_AsStated ==
    /\ C14_SuffixCarried
    /\ Terminated => \A i \in WideWords : EmittedOnce(i)

\* C14, amended: ... a word wider than the line is split across lines with
\* every character emitted once, provided each of its characters fits an empty
\* line (a character that does not fit an empty line is dropped together with
\* the rest of the word).
C14_WordSplit ==
    /\ C14_SuffixCarried
    /\ Terminated => \A i \in WideWords : EachCharFits(i) => EmittedOnce(i)

\* a word of two characters on a line with room for one: the second character
\* was carried as a Word of its own and emitted on the next line
C14_Witness ==
    /\ Terminated
    /\ start.carried.t = "Word"
    /\ start.parser \in WideWords
    /\ start.carried.w = SuffixFrom(start.carried.w[1])
    /\ start.carried.w[1].idx = 2
    /\ EmittedOnce(start.parser)

\* ------------------------------------------------------------------------
\* the step was given a non-breaking space of a word
NbspStep ==
    /\ event \in {"WordChar", "WordSplit", "WordDrop"}
    /\ Head(CharsBefore).ch = "nbsp"

\* the Word token (as the parser yields it) that the character c belongs to
WordOf(c) == tokens[c.tok]

\* C15: a non-breaking space inside a word is emitted as Space(w, 1) with
\* w = peek_next_width(1) as peeked right before; the cursor advances by
\* exactly w and the space configuration consumes exactly one space.  It is a
\* character of its word: the step leaves the iterator in the per-character
\* emission of the same word, nothing is carried and the line is not ended,
\* and a word with a non-breaking space that is deferred is carried whole.
C15_NonBreakingSpace ==
    /\ (NbspStep /\ ret # Continue)
        => /\ event = "WordChar"
           /\ ret = Space(peek_next_width(1), 1)
           /\ x = prev.x + peek_next_width(1)
           /\ y = prev.y
           /\ consumed = prev.consumed + 1
           /\ current_token = StateWord(Tail(CharsBefore))
           /\ carried_token = prev.carried_token
           /\ parser = prev.parser
    /\ (NbspStep /\ ret = Continue)
        => /\ peek_next_width(1) > RoomBefore
           /\ consumed = prev.consumed
    /\ (event \in WordEvents /\ \E j \in 1..Len(Processed.w) : Processed.w[j].ch = "nbsp")
        => /\ consumed = prev.consumed
           /\ event = "WordDeferred" => carried_token = Processed
           /\ event # "WordDeferred" => current_token = StateWord(Processed.w)

\* a non-breaking space wider than a glyph is emitted behind a character of
\* its word, on a line that held something before the word
C15_Witness ==
    /\ NbspStep
    /\ ret = Space(peek_next_width(1), 1)
    /\ peek_next_width(1) > CharWidth
    /\ Head(CharsBefore).idx = 2
    /\ prev.x > CharWidth
    /\ consumed = 1

\* ------------------------------------------------------------------------
\* the next tab stop: the least multiple of the tab width behind the offset p
NextTabStop(p) == CHOOSE m \in (p + 1)..(p + tab_width) : m % tab_width = 0

\* the step moved on to the next token of the input without ending the line
LineContinues ==
    /\ carried_token = prev.carried_token
    /\ y = prev.y
    /\ current_token = IF prev.parser < Len(tokens) THEN ProcessToken(Following) ELSE Done
    /\ parser = IF prev.parser < Len(tokens) THEN prev.parser + 1 ELSE prev.parser

\* C16: a Tab always emits exactly one Space(w, 0).  If the distance to the
\* next tab stop fits, w is that distance, the cursor lands on the tab stop
\* and the line continues; otherwise w is the whole remaining space, the tab
\* is consumed and the line ends wrapped, carrying Break(None).
C16_TabStop ==
    (event \in {"Tab", "TabWrap"} /\ Processed = Tab)
        => LET stop == NextTabStop(prev.x)
               distance == stop - prev.x
           IN /\ ret.e = "Space" /\ ret.count = 0
              /\ elems # <<>> /\ elems[Len(elems)] = ret
              /\ consumed = prev.consumed
              /\ IF distance <= RoomBefore
                 THEN /\ event = "Tab"
                      /\ ret.width = distance
                      /\ x = stop
                      /\ LineContinues
                 ELSE /\ event = "TabWrap"
                      /\ ret.width = RoomBefore
                      /\ LineEndedWith(BreakNone)

\* a tab behind a glyph-wide element reaches the tab stop, and a second tab finds the
\* next stop beyond the line: it takes the rest of the line and wraps
C16_Witness ==
    /\ event = "TabWrap"
    /\ ret = Space(RoomBefore, 0)
    /\ RoomBefore > 0
    /\ Len(elems) >= 3
    /\ elems[Len(elems) - 1] = Space(tab_width - CharWidth, 0)
    /\ prev.x = tab_width

\* ------------------------------------------------------------------------
\* Ending a line.

\* the steps that end a line because of its width
ForcedWrapEvents ==
    {"WordDeferred", "WordSplit", "WhitespaceSome", "WhitespaceNoneFit", "WhitespaceWrap",
     "BreakHyphen", "BreakExtra", "BreakWrap", "TabWrap"}

\* the step ended the line
LineEndingStep == prev.current_token.k \in {"ProcessToken", "Word"} /\ current_token = Done

\* the spaces of the run that the step could render: after a forced wrap one
\* of them stands for the line break
SpacesLeft == IF ForcedWrap THEN Processed.n - 1 ELSE Processed.n

\* the token a forced wrap defers to the next line (Break(None) if none)
Deferred ==
    CASE event = "WordDeferred" -> Processed
      [] event = "WordSplit" -> Word(CharsBefore)
      [] event = "WhitespaceSome" -> Whitespace(SpacesLeft - SpacesEmitted)
      [] event = "WhitespaceNoneFit" ->
            IF SpacesLeft > 1 THEN Whitespace(SpacesLeft - 1) ELSE BreakNone
      [] event = "BreakExtra" -> ExtraCharacter(Processed.c)
      [] OTHER -> BreakNone

\* C17: a NewLine token ends the line, moves the cursor to x = 0 one line
\* lower and leaves NewLine carried; a CarriageReturn ends the line, moves the
\* cursor to x = 0 on the same line and leaves CarriageReturn carried; a
\* width-forced wrap moves the cursor to x = 0 one line lower and leaves the
\* deferred token or Break(None) carried.  No other step carries a token or
\* leaves the line of the cursor.
C17_LineEnd ==
    /\ (event \in {"NewLine", "CarriageReturn"} /\ Processed = NewLine)
        => /\ event = "NewLine" /\ ret = Continue
           /\ current_token = Done
           /\ x = 0 /\ y = prev.y + line_spacing
           /\ carried_token = NewLine
           /\ parser = prev.parser
    /\ (event \in {"NewLine", "CarriageReturn"} /\ Processed = CarriageReturn)
        => /\ event = "CarriageReturn" /\ ret = Continue
           /\ current_token = Done
           /\ x = 0 /\ y = prev.y
           /\ carried_token = CarriageReturn
           /\ parser = prev.parser
    /\ event \in ForcedWrapEvents
        => /\ current_token = Done
           /\ x = 0 /\ y = prev.y + line_spacing
           /\ carried_token = Deferred
           /\ parser = prev.parser
    /\ (LineEndingStep /\ event \notin ForcedWrapEvents \cup {"NewLine", "CarriageReturn"})
        => /\ carried_token = NoToken
           /\ y = prev.y

\* a carriage return behind content on the second line: the cursor is back at
\* the start of that same line
C17_Witness ==
    /\ event = "CarriageReturn"
    /\ carried_token = CarriageReturn
    /\ prev.x > 0 /\ x = 0
    /\ y = line_spacing
    /\ start.carried = NewLine

\* ------------------------------------------------------------------------
\* the step called next_word_width before it decided
LookaheadRan ==
    /\ prev.current_token.k = "ProcessToken"
    /\ \/ Processed.t = "Break"
       \/ Processed.t = "Whitespace" /\ ~prev.first_word

\* C18: the lookahead of the Whitespace and Break arms has no side effect.
\* After a step that ran it, the parser stands where it stood, or one token
\* further if the arm went on to the next token, and that token is the one
\* that followed in the input; the first-word flag is unchanged; the carried
\* token, the cursor and the spaces consumed are exactly what the arm itself
\* sets: a step that emits nothing and goes on changes none of them.
C18_NoSideEffect ==
    LookaheadRan =>
        /\ current_token \in
             {Done, IF prev.parser < Len(tokens) THEN ProcessToken(Following) ELSE Done}
        /\ parser = IF current_token = Done THEN prev.parser ELSE prev.parser + 1
        /\ first_word = prev.first_word
        /\ consumed = prev.consumed + SpacesEmitted
        /\ event \in {"BreakSkip", "WhitespaceSkip"} => SkippedSilently
        /\ event \in ForcedWrapEvents => carried_token = Deferred /\ x = 0
        /\ event = "WhitespaceAll"
             => /\ x = prev.x + ret.width /\ y = prev.y
                /\ carried_token = prev.carried_token

\* a Break that is skipped after the lookahead has read an escape sequence and
\* a word behind it: the escape sequence is the token processed next
C18_Witness ==
    /\ Len(tokens) = 3
    /\ LookaheadRan
    /\ event = "BreakSkip"
    /\ prev.parser = 1
    /\ tokens[2].t = "EscapeSequence" /\ tokens[3].t = "Word"
    /\ current_token = ProcessToken(tokens[2])
    /\ parser = 2

\* ------------------------------------------------------------------------
\* An escape sequence inside a word.

IsPlain(w) == \A j \in 1..Len(w) : w[j].ch = "c"

\* the input is a single plain word
OneWord == Len(tokens) = 1 /\ tokens[1].t = "Word" /\ IsPlain(tokens[1].w)

\* the input is a plain word, a graphics-mode sequence and a plain word
WordEscapeWord ==
    /\ Len(tokens) = 3
    /\ tokens[1].t = "Word" /\ IsPlain(tokens[1].w)
    /\ tokens[2] = EscapeSequence("SetGraphicsMode", 1)
    /\ tokens[3].t = "Word" /\ IsPlain(tokens[3].w)

\* the place of the character c in the word made of all Word tokens before
\* and including its own
PlaceInJoinedWord(c) == RunWordsWidth(1, c.tok) \div CharWidth + c.idx

\* the characters printed on the current line stand on the lines that the
\* single word of n characters has them on
AsSingleWord(n) ==
    \A i \in 1..Len(elems) :
        elems[i].e = "PrintedCharacter"
            => LET place == PlaceInJoinedWord(elems[i].c)
                   lines == first_word_lines(n, 0, 0)
               IN /\ place <= Len(lines)
                  /\ start.y = lines[place]

\* the layout of a single word is the one first_word_lines computes
SingleWordLayout ==
    OneWord => /\ AsSingleWord(Len(tokens[1].w))
               /\ Terminated => Len(printed) = Len(first_word_lines(Len(tokens[1].w), 0, 0))

\* C19 as stated: for any line width, the tokens Word(a), EscapeSequence,
\* Word(b) put the same PrintedCharacter elements on the same lines as the
\* single word a+b does.
C19_AsStated ==
    WordEscapeWord =>
        LET n == Len(tokens[1].w) + Len(tokens[3].w) IN
        /\ AsSingleWord(n)
        /\ Terminated => Len(printed) = Len(first_word_lines(n, 0, 0))

\* the second word is deferred whole although its first character has room
\* behind the first word, where the single word has it
C19_Divergence ==
    /\ WordEscapeWord
    /\ event = "WordDeferred"
    /\ prev.parser = 3
    /\ prev.x > 0
    /\ RoomBefore >= CharWidth

\* ------------------------------------------------------------------------
\* Escape sequences.

EscapeEvents == {"SetGraphicsMode", "CursorForward", "CursorBackward", "Other"}

\* the distance a cursor sequence asks for
Requested == Processed.n * CHARACTER_SIZE_width + CHARACTER_SPACING

\* what C20 says of the cursor sequences, of unknown sequences and of the
\* line: no escape sequence ends the line
C20_Cursor ==
    (event \in EscapeEvents /\ Processed.t = "EscapeSequence")
        => /\ event = Processed.seq
           /\ LineContinues
           /\ consumed = prev.consumed /\ first_word = prev.first_word
           /\ event = "CursorForward"
                => /\ ret = Space(IF Requested <= RoomBefore THEN Requested ELSE RoomBefore, 0)
                   /\ x = prev.x + ret.width
           /\ event = "CursorBackward"
                => /\ ret = Continue
                   /\ x = IF prev.x - Requested >= 0 THEN prev.x - Requested ELSE 0
           /\ event = "Other" => ret = Continue /\ x = prev.x

\* C20 as stated: escape sequences never fail and never end the line; a
\* graphics-mode sequence emits one zero-width style element and leaves the
\* cursor unchanged; cursor-forward emits Space(w, 0), w the requested distance
\* if it fits and else the remaining space; cursor-backward emits nothing and
\* moves back by the requested distance or to x = 0; any other sequence emits
\* nothing and changes nothing.
C20_AsStated ==
    /\ C20_Cursor
    /\ event = "SetGraphicsMode" => ret = Sgr /\ x = prev.x

\* C20, amended: a graphics-mode sequence emits one zero-width style element
\* if its parameters are a known style, and nothing otherwise; it leaves the
\* cursor unchanged either way.  The rest as stated.
C20_EscapeSequences ==
    /\ C20_Cursor
    /\ event = "SetGraphicsMode"
         => /\ x = prev.x
            /\ ret = IF Processed.n = UnknownParameters THEN Continue ELSE Sgr

\* a graphics-mode sequence with unknown parameters behind a cursor-forward
\* sequence that was clamped to the line end
C20_Witness ==
    /\ event = "SetGraphicsMode"
    /\ ret = Continue
    /\ elems # <<>> /\ elems[Len(elems)].e = "Space"
    /\ prev.parser = 2 /\ tokens[1] = EscapeSequence("CursorForward", 1)
    /\ x = width /\ width < CharWidth /\ width > 0

\* ------------------------------------------------------------------------
\* Tokens dropped because nothing of them fits.

\* the step emitted nothing and ended the iterator where the cursor stood,
\* with nothing carried
EndedInPlace ==
    /\ ret = Continue
    /\ current_token = Done
    /\ carried_token = NoToken
    /\ x = prev.x /\ y = prev.y
    /\ parser = prev.parser

\* the token holds the character c
Holds(tok, c) ==
    \/ tok.t = "Word" /\ \E k \in 1..Len(tok.w) : tok.w[k] = c
    \/ tok.t \in {"ExtraCharacter", "Break"} /\ tok.c = c

\* the iterator has the character c before it: in the token it processes, in
\* the rest of the word it emits, or in the carried token
InHand(c) ==
    \/ current_token.k = "ProcessToken" /\ Holds(current_token.tok, c)
    \/ current_token.k = "Word"
         /\ \E k \in 1..Len(current_token.chars) : current_token.chars[k] = c
    \/ Holds(carried_token, c)

\* C21: when a carried ExtraCharacter does not fit, or the next character of
\* a word does not fit on an empty line (x = 0), the iterator emits nothing
\* for it, ends with no carried token and leaves the cursor where it was; the
\* dropped token is never processed again and none of its characters is ever
\* emitted.
C21_SilentDrop ==
    /\ (event \in {"ExtraCharacter", "ExtraCharacterDrop"} /\ CharWidth > RoomBefore)
        => /\ event = "ExtraCharacterDrop"
           /\ EndedInPlace
           /\ Processed.c \in dropped
    /\ (CharDidNotFit /\ prev.x = 0)
        => /\ event = "WordDrop"
           /\ EndedInPlace
           /\ \A k \in 1..Len(CharsBefore) : CharsBefore[k] \in dropped
    /\ \A c \in dropped :
           /\ ~InHand(c)
           /\ TimesPrinted(c) = 0
           /\ \A i \in 1..Len(elems) : elems[i] # PrintedCharacter(c)

\* a soft hyphen that was carried and dropped on a line too narrow for it, and
\* the layout went on to its end with the tokens behind it
C21_Witness ==
    /\ Terminated
    /\ Len(tokens) = 3
    /\ tokens[1].t = "Break"
    /\ tokens[1].c \in dropped
    /\ Cardinality(dropped) = 2
    /\ event = "Done"

\* ------------------------------------------------------------------------
\* a call of the space configuration has just returned
ConfigCall == event \in {"PeekNextWidth", "Consume"}

\* the call before the last one was peek_next_width with the same count
PeekedBefore == prev.ret.e = "PeekNextWidth" /\ prev.ret.arg = ret.arg

\* C22: UniformSpaceConfig: peek_next_width(n) and consume(n) return n times
\* the space width, consume(n) returns what the peek_next_width(n)
\* immediately before it returned, and no call changes the configuration, so
\* a later peek is unaffected by the consumes before it.
C22_PeekConsume ==
    /\ [](ConfigCall => ret.value = ret.arg * space_width)
    /\ []((event = "Consume" /\ PeekedBefore) => ret.value = prev.ret.value)
    /\ [][space_width' = space_width]_vars

C22_Witness ==
    /\ event = "Consume"
    /\ PeekedBefore
    /\ ret.arg = MaxSpaces + 1
    /\ space_width = CharWidth + 1
    /\ ret.value = (MaxSpaces + 1) * (CharWidth + 1)

\* ------------------------------------------------------------------------
\* the move asked of the last move_cursor call ends inside the line
MoveInRange == 0 <= prev.x + ret.arg /\ prev.x + ret.arg <= width

\* the furthest the cursor could have gone in the direction asked for
MaximalMove == IF ret.arg >= 0 THEN width - prev.x ELSE 0 - prev.x

\* C23: move_cursor(by) returns Ok(by) and moves the position by exactly by
\* if and only if 0 <= position + by <= width; otherwise the position stays
\* and it returns Err(d), d the maximal move in the direction asked for:
\* width - position for by >= 0, -position for by < 0.
C23_MoveCursor ==
    event = "MoveCursor" =>
        /\ MoveInRange => ret.value = Ok(ret.arg) /\ x = prev.x + ret.arg
        /\ ~MoveInRange => ret.value = Err(MaximalMove) /\ x = prev.x

C23_Witness ==
    /\ event = "MoveCursor"
    /\ 0 < prev.x /\ prev.x < width
    /\ ret.arg = width
    /\ ret.value = Err(width - prev.x)
    /\ x = prev.x

\* ------------------------------------------------------------------------
\* the widths fits_in_line is asked about
Widths == 0..(MaxWidth + 1)

\* C24: a LineCursor made by LineCursor::new or Cursor::line keeps
\* 0 <= position <= width through every move_cursor, failed or not, and
\* every carriage_return; so space() is width - position and not below 0, and
\* fits_in_line(w) holds exactly when w <= width - position.
C24_PositionInLine ==
    /\ 0 <= x /\ x <= width
    /\ 0 <= space(x)
    /\ \A w \in Widths : fits_in_line(x, w) <=> w <= width - x
    /\ event = "Space" => ret.value = width - x /\ 0 <= ret.value
    /\ event = "FitsInLine" => (ret.value <=> ret.arg <= width - x)

C24_Witness ==
    /\ event = "FitsInLine"
    /\ prev.ret.e = "MoveCursor"
    /\ prev.ret.value.e = "Err"
    /\ 0 < x /\ x < width
    /\ ret.arg = width - x
    /\ ret.value

\* ------------------------------------------------------------------------
\* in_display_area has just returned true
ReportedInside == event = "InDisplayArea" /\ ret.value

\* a line as high as the cursor's lines lies inside the box at y
CompleteLineFits == 0 <= y /\ y + ret.arg <= height

\* C25: in_display_area() returns true only if a complete line fits
\* vertically at the cursor (top <= y and y + line_height <= top + height),
\* for every size of the bounding rectangle, zero width and zero height
\* included.
C25_AsStated == ReportedInside => CompleteLineFits

\* A box of height zero and a font one pixel high: the line at the top edge
\* is reported inside although no row of it is.
C25_Divergence ==
    /\ ReportedInside
    /\ height = 0
    /\ y = 0
    /\ ret.arg = 1
    /\ ~CompleteLineFits

\* ------------------------------------------------------------------------
\* the last step drew the first element of its line
FirstOnLine ==
    Len(elems) = 1 /\ event \in {"DrawWord", "NextWordSpace", "DrawWhitespaceNext"}

\* C26: the right-aligned renderer starts a line of measured width W in a
\* box of width B at B - W: MeasureLine leaves the cursor there and the
\* first element drawn on the line is drawn from there.
C26_RightAligned ==
    /\ event = "MeasureLine" => x = width - measured /\ 0 <= x
    /\ FirstOnLine => prev.x = width - measured /\ x = prev.x + ElementWidth(elems[1])

C26_Witness ==
    /\ FirstOnLine
    /\ event = "DrawWord"
    /\ y = 1
    /\ width = MaxWidth
    /\ measured = 2 * CharWidth
    /\ prev.x = MaxWidth - 2 * CharWidth

\* ------------------------------------------------------------------------
\* the line being drawn is complete: a line break is due or the text is over
LineComplete == state.k = "LineBreak" \/ event = "NextWordNone"

\* C27: the width MeasureLine computed for a line is the total width of the
\* characters and spaces drawn on it before the next line break, also on
\* lines that start with carried characters.
C27_AsStated == LineComplete => WidthSum(elems) = measured

\* On a line that starts with a fresh token the measured width is the width
\* drawn.
C27_FreshLines ==
    (LineComplete /\ start.carried = NoToken) => WidthSum(elems) = measured

\* A line that starts with the carried end of a long word, followed by a
\* space and a word that does not fit: the measured width is that of the
\* word that does not fit, and the line is drawn short of the right edge.
C27_Divergence ==
    /\ LineComplete
    /\ start.carried # NoToken
    /\ width = 3 * CharWidth
    /\ measured = 3 * CharWidth
    /\ WidthSum(elems) = 2 * CharWidth
    /\ x = 2 * CharWidth

\* ------------------------------------------------------------------------
\* the word NextWord has just taken from the parser
TakenWord == tokens[parser].w

\* a word that is not the first on its line and does not fit in the room left
\* goes to the next line whole, undrawn; one that fits stays
WordMovedWhole ==
    /\ event = "NextWordWrap"
          => /\ str_width(TakenWord) > width - prev.x
             /\ state = LineBreak(TakenWord)
             /\ \A j \in 1..Len(TakenWord) : TimesPrinted(TakenWord[j]) = 0
             /\ x = prev.x
    /\ event = "NextWordFits"
          => str_width(TakenWord) <= width - prev.x /\ state = DrawWord(TakenWord)

\* a word is broken in front of a character that has no room, and the rest of
\* the word from that character on goes to the next line
WordBroken ==
    event = "DrawWordWrap"
        => LET c == Head(state.remaining) IN
           /\ state = LineBreak(SuffixFrom(c))
           /\ total_char_width(c) > width - x
           /\ \A j \in 1..(c.idx - 1) : TimesPrinted(tokens[c.tok].w[j]) = 1

\* where a word is broken the line holds no further character
LineFull ==
    event = "DrawWordWrap"
        => WidthSum(elems) + total_char_width(Head(state.remaining)) > width

\* the characters drawn so far are the first of the input, in order, and all
\* of them once the parser is exhausted
DrawnInOrder ==
    /\ IsPrefix(printed, AllWordChars)
    /\ event = "NextWordNone" => printed = AllWordChars

\* C28: word wrapping of the right-aligned renderer: a word that is not the
\* first on its line and does not fit in the remaining width is moved whole
\* to the next line; a word wider than the box is broken after the last
\* character that fits on the line and continues on the following one; every
\* character of the words is drawn exactly once, in order, while the cursor
\* is in the display area.
C28_AsStated == WordMovedWhole /\ WordBroken /\ LineFull /\ DrawnInOrder

\* What holds of every break: the character in front of which the word is
\* broken has no room behind the cursor.
C28_BrokenAtCursor == WordMovedWhole /\ WordBroken /\ DrawnInOrder

\* The end of a long word is carried to a line five pixels wide, two
\* characters of two pixels: the first is drawn and the word is broken again
\* in front of the second, which the line has room for.
C28_Divergence ==
    /\ event = "DrawWordWrap"
    /\ start.carried # NoToken
    /\ Len(start.carried.w) = 2
    /\ width = 2 * CharWidth + 1
    /\ Len(elems) = 1
    /\ Len(state.remaining) = 1
    /\ x = width

\* ------------------------------------------------------------------------
\* C29: TopAligned::apply_vertical_alignment changes no field of the cursor:
\* not y, not the bounding box, not the position in the line; a cursor at the
\* top edge is at the top edge after it, so the first line is laid out there.
C29_TopAligned ==
    /\ [][event' = "ApplyVerticalAlignment"
            => /\ y' = y
               /\ width' = width /\ height' = height
               /\ x' = x]_vars
    /\ []((event = "ApplyVerticalAlignment" /\ prev.y = 0) => y = 0)

C29_Witness ==
    /\ event = "ApplyVerticalAlignment"
    /\ prev.y = 0
    /\ y = 0
    /\ height = MaxHeight
    /\ width = MaxWidth

\* ------------------------------------------------------------------------
\* LineElementIterator::new has just returned
Constructed == event \in {"NewResume", "NewFresh"}

\* the token the parser yields to the constructor, if it has one left
FromParser ==
    IF prev.parser < Len(tokens) THEN ProcessToken(tokens[prev.parser + 1]) ELSE Done

\* C30: LineElementIterator::new always empties the carried slot.  A carried
\* Word, Whitespace or ExtraCharacter is the first token processed, before
\* any token of the parser; a carried NewLine, CarriageReturn or Break(None)
\* is discarded without an element and without moving the cursor, and the
\* first token processed is the next token of the parser.
C30_Construction ==
    Constructed =>
        /\ carried_token = NoToken
        /\ ret = Continue /\ elems = <<>>
        /\ x = prev.x /\ y = prev.y
        /\ prev.carried_token.t \in {"Word", "Whitespace", "ExtraCharacter"}
              => /\ current_token = ProcessToken(prev.carried_token)
                 /\ parser = prev.parser
        /\ prev.carried_token \in {NewLine, CarriageReturn, BreakNone, NoToken}
              => /\ current_token = FromParser
                 /\ parser = IF prev.parser < Len(tokens)
                             THEN prev.parser + 1 ELSE prev.parser

\* a line break was carried over and discarded, and the next token of the
\* parser is about to be processed on the next line
C30_Witness ==
    /\ event = "NewFresh"
    /\ prev.carried_token = BreakNone
    /\ current_token.k = "ProcessToken"
    /\ current_token.tok.t = "Word"
    /\ parser = prev.parser + 1
    /\ y > 0

\* the rest of a token was carried over and is about to be processed first
C30_Resumed ==
    /\ event = "NewResume"
    /\ prev.carried_token.t = "ExtraCharacter"
    /\ current_token = ProcessToken(prev.carried_token)
    /\ parser = prev.parser
    /\ parser < Len(tokens)

\* ------------------------------------------------------------------------
\* the last step ended the line: the iterator went to State::Done
Finished == state = NoState /\ current_token = Done /\ prev.current_token # Done

\* the last step dropped what it was processing
DropEvents == {"ExtraCharacterDrop", "WordDrop"}

\* the iterator was working on a token of which a character has been dropped:
\* the token it took last from the parser, or the one it was resumed from
DroppedLast ==
    \E c \in dropped :
        \/ c.tok = parser
        \/ start.carried # NoToken /\ Holds(start.carried, c)

\* C31 as stated: whenever a LineElementIterator returns None, either a line
\* end has been finalized and a token is carried, or the parser is exhausted
\* and nothing is carried.
C31_AsStated ==
    Drained => \/ carried_token # NoToken
               \/ parser = Len(tokens) /\ carried_token = NoToken

\* C31, amended: ... or the iterator has dropped a character that does not
\* fit (an ExtraCharacter, or a word character on an empty line): then it ends
\* through finish_end_of_string with nothing carried, whatever the parser has
\* left.  These are the only ways for the elements of a line to end.
C31_LineEnds ==
    /\ Finished => \/ carried_token # NoToken
                   \/ parser = Len(tokens)
                   \/ event \in DropEvents
    /\ event \in DropEvents => Finished /\ carried_token = NoToken
    /\ Drained => \/ carried_token # NoToken
                  \/ parser = Len(tokens)
                  \/ DroppedLast

\* None was returned behind a dropped character, with nothing carried and
\* tokens left in the parser
C31_Witness ==
    /\ Drained
    /\ carried_token = NoToken
    /\ parser < Len(tokens)
    /\ DroppedLast
    /\ y > 0

\* ------------------------------------------------------------------------
\* the iterator is between two steps of a line it has not ended
LineOpen == state = NoState /\ current_token.k \in {"ProcessToken", "Word"}

\* nothing stands on the line: the cursor is at its start and no element
\* with a width has been emitted
LineEmpty == x = 0 /\ WidthSum(elems) = 0

\* C32: in every reachable state of a LineElementIterator, if the
\* first-word flag is still true then the cursor is at the start of the line
\* and no element with a non-zero width has been emitted on this line.
C32_AsStated == (LineOpen /\ first_word) => LineEmpty

\* the element is a character of a Word token or a space of a whitespace run
OfWordOrWhitespace(el) ==
    \/ el.e = "PrintedCharacter" /\ tokens[el.c.tok].t = "Word"
    \/ el.e = "Space" /\ el.count > 0

\* While the first-word flag is true no character of a word and no space of
\* a whitespace run has been emitted on the line.
C32_NoWordYet ==
    (LineOpen /\ first_word) => \A i \in 1..Len(elems) : ~OfWordOrWhitespace(elems[i])

\* A word behind a tab: the flag is still true, so the word is placed
\* character by character and split where the line ends, although it would
\* fit on a line of its own.
C32_Divergence ==
    /\ event = "WordSplit"
    /\ Len(elems) = 2
    /\ elems[1] = Space(tab_width, 0)
    /\ elems[2].e = "PrintedCharacter"
    /\ tokens[elems[2].c.tok].t = "Word"
    /\ carried_token.t = "Word"
    /\ str_width_nocr(tokens[elems[2].c.tok].w) <= width

\* ------------------------------------------------------------------------
\* C33: next_word_width returns, for the tokens behind the current one: None
\* if the first token that is not an escape sequence is neither a Word nor a
\* Break with a fallback character, or if there is none; otherwise the sum of
\* the widths of the Words up to the first token that is neither a Word nor an
\* escape sequence, plus one glyph if that token is a Break with a fallback
\* character.  Any other token, and the end of the input, add nothing.
C33_NextWordWidth ==
    state = NoState =>
        /\ ~WordAhead(parser + 1) => next_word_width = NoWidth
        /\ WordAhead(parser + 1) => next_word_width = AheadWidth(parser + 1)
        /\ (RunEnd(parser + 1) <= Len(tokens) /\ ~EndsAtFallback(parser + 1))
              => next_word_width \in {NoWidth, RunWordsWidth(parser + 1, RunEnd(parser + 1))}

\* a Break is being processed in front of a word and a Break with a fallback
\* character: the lookahead is the word and one glyph
C33_Witness ==
    /\ IsProcessing("Break")
    /\ Len(tokens) = MaxTokens
    /\ parser = MaxTokens - 2
    /\ tokens[parser + 1].t = "Word"
    /\ EndsAtFallback(parser + 1)
    /\ RunEnd(parser + 1) = MaxTokens
    /\ next_word_width = str_width_nocr(tokens[parser + 1].w) + CharWidth

\* ------------------------------------------------------------------------
\* C34: next_tab_width of a cursor at position p with tabs t >= 1 wide
\* returns d with 1 <= d <= t such that p + d is the smallest multiple of t
\* above p, and leaves the cursor where it is.
C34_NextTabWidth ==
    event = "NextTabWidth" =>
        LET t == ret.arg
            d == ret.value
            p == prev.x
        IN /\ 1 <= d /\ d <= t
           /\ (p + d) % t = 0
           /\ \A m \in (p + 1)..(p + d - 1) : m % t # 0
           /\ x = p

\* from a position between two tab stops of the widest tab
C34_Witness ==
    /\ event = "NextTabWidth"
    /\ ret.arg = MaxTabWidth
    /\ prev.x = MaxTabWidth + 1
    /\ ret.value = MaxTabWidth - 1
    /\ x = prev.x

\* ------------------------------------------------------------------------
\* the cursor of the pixel iterator, its parser and its state
RightProgram == <<parser, x, y, state>>

\* C35: the right-aligned pixel iterator terminates for every text and every
\* box width, also in a box narrower than a glyph: every line break moves the
\* cursor down by the line spacing, which is positive; once in_display_area()
\* is false it stays false, and from then on next() returns None, takes no
\* token and moves no cursor.
C35_Terminates ==
    /\ <>[](ret = None)
    /\ [][event' = "LineBreak" => y' = y + line_spacing /\ y' > y]_vars
    /\ [][~in_display_area(y)
            => /\ ~in_display_area(y')
               /\ ret' = None
               /\ RightProgram' = RightProgram]_vars

\* a word in a box narrower than a glyph: line break after line break without
\* a character drawn, until the cursor is below the box
C35_Witness ==
    /\ event = "Outside"
    /\ ret = None
    /\ 0 < width /\ width < CharWidth
    /\ height = MaxHeight
    /\ y = MaxHeight
    /\ state.k = "MeasureLine"
    /\ state.remaining # <<>>
    /\ printed = <<>>

\* ------------------------------------------------------------------------
\* what a call of next() on a drained iterator must leave alone
IteratorProgram == <<parser, x, y, space_width, carried_token, consumed, current_token>>

\* C36: Done is absorbing: an iterator returns None only in the Done state,
\* and in the Done state every call of next() returns None and leaves the
\* parser, the cursor, the space configuration and the carried token as they
\* are; only the construction of the next iterator goes on from there.
C36_DoneAbsorbing ==
    /\ []((ret = None /\ event \notin {"NewResume", "NewFresh"}) => current_token = Done)
    /\ [][current_token = Done
            => \/ event' = "Done" /\ ret' = None
                    /\ IteratorProgram' = IteratorProgram
               \/ event' \in {"NewResume", "NewFresh"}]_vars

\* next() was called again on an iterator that had returned None with a
\* token carried and tokens left in the parser
C36_Witness ==
    /\ event = "Done"
    /\ prev.ret = None
    /\ prev.current_token = Done
    /\ ret = None
    /\ carried_token # NoToken
    /\ parser < Len(tokens)

\* ------------------------------------------------------------------------
\* the last call was move_cursor on a line cursor of any width
WideMoved == event = "WideMoveCursor"

\* the space left on the line before the last call, as a u32
WideSpaceBefore == wrapping_sub(width, prev.x)

\* C37 (as stated): move_cursor is right over the whole range of u32 and
\* i32: no call panics, a forward move of at most width - position succeeds
\* and moves the cursor by that distance, and a forward move that fails
\* leaves the cursor and returns Err(width - position), which is not negative.
C37_AsStated ==
    WideMoved =>
        /\ ret.value # Panic
        /\ ret.arg >= 0 =>
            IF u32_le(as_u32(ret.arg), WideSpaceBefore)
            THEN /\ ret.value = Ok(ret.arg)
                 /\ x = wrapping_add(prev.x, as_u32(ret.arg))
            ELSE /\ ret.value.e = "Err"
                 /\ ret.value.v >= 0
                 /\ as_u32(ret.value.v) = WideSpaceBefore
                 /\ x = prev.x

\* a forward move that fits the line failed with a negative Err value: the
\* line is wider than 2^31 - 1
C37_Divergence ==
    /\ WideMoved
    /\ ret.arg >= 0
    /\ u32_le(as_u32(ret.arg), WideSpaceBefore)
    /\ ret.value.e = "Err"
    /\ ret.value.v < 0
    /\ x = prev.x

\* C37 (what holds): on a line of at most 2^31 - 1 and for every distance
\* above the least i32, move_cursor neither panics nor wraps: the cursor
\* stays on the line, a forward move of at most width - position succeeds,
\* and one that fails returns Err(width - position).
C37_NarrowLine ==
    (WideMoved /\ u32_le(width, u32_of(i32_MAX)) /\ ret.arg # i32_MIN) =>
        /\ ret.value # Panic
        /\ u32_le(x, width)
        /\ ret.arg >= 0 =>
            IF u32_le(as_u32(ret.arg), WideSpaceBefore)
            THEN /\ ret.value = Ok(ret.arg)
                 /\ x = wrapping_add(prev.x, as_u32(ret.arg))
            ELSE /\ ret.value = Err(as_i32(WideSpaceBefore))
                 /\ ret.value.v >= 0
                 /\ x = prev.x

\* the least i32 as the distance panics in a build that checks for overflow
C37_LeastDistance == WideMoved /\ ret.arg = i32_MIN /\ ret.value = Panic
====
